---- MODULE Spec2Model ----
(***************************************************************************)
(* Rollup state machine (internal/model/model.go), the input repository    *)
(* and the convenience service upserts of cartesi-rollups-hl-graphql.      *)
(*                                                                         *)
(* Every NonodoModel method takes m.mutex for its whole body               *)
(* (model.go:62-63, 89-90, 127-128, 176-177, 186-187, 195-196, 204-205),   *)
(* so each method is one atomic action, whoever the caller is.             *)
(***************************************************************************)
EXTENDS Integers, Sequences, FiniteSets, TLC

\* ---------------------------------------------------------------- bounds

\* advance input indexes are 0..MaxIndex
MaxIndex == 1
\* at most MaxInspects inspect inputs are submitted
MaxInspects == 1
\* at most MaxOutputs outputs of one kind are added to one in-flight input
MaxOutputs == 1
\* voucher / notice keys of the upsert specification: 0..MaxKey
MaxKey == 1
\* at most MaxRaw raw inputs are in the node database
MaxRaw == 3
\* at most MaxRawOut raw outputs are in the node database
MaxRawOut == 1
\* rows per batch (LIMIT, 50 in the source)
LIMIT == 2
\* at most MaxLogs OutputExecuted events are on the chain
MaxLogs == 2
\* the 64-bit words of an event id take the values 0..MaxWord
MaxWord == 2
\* an output payload has at most MaxBody bytes after its selector
MaxBody == 2
\* at most MaxBatchOut raw outputs are stored before the worker starts
MaxBatchOut == 2
\* a queried table has at most MaxRows rows
MaxRows == 4
\* a query has at most MaxFilters filters
MaxFilters == 2
\* the outputs of one kind an input gets where outputs are counted
MaxAdds == 2

\* ------------------------------------------------------------ value sets

Unprocessed == "Unprocessed"
Accepted == "Accepted"
Rejected == "Rejected"
Exception == "Exception"

CompletionStatus ==
    {Unprocessed, Accepted, Rejected, Exception, "MachineHalted",
     "CycleLimitExceeded", "TimeLimitExceeded", "PayloadLengthLimitExceeded"}

Indexes == 0..MaxIndex

\* the zero address (an AdvanceInput built without AppContract) and one other
ZeroAddress == "0x00"
Apps == {ZeroAddress, "0xf3"}

NoPayload == ""
InputPayloads == {"p1"}
ExceptionPayloads == {"e1", "e2"}
OutputPayloads == {"o1"}
Destinations == {"d1"}

\* the status a delivered input carries
DeliveredStatuses == {Unprocessed}

NoRow == [index |-> -1]

\* ------------------------------------------------------------- variables

VARIABLES
    inputs,     \* table convenience_inputs, in insertion (id) order
    inspects,   \* NonodoModel.inspects
    state,      \* NonodoModel.state
    vouchers,   \* table convenience_vouchers
    notices,    \* table convenience_notices
    reports,    \* table convenience_reports
    last,       \* the last call and what it returned
    finished,   \* advance indexes a successful FinishAndGetNext has finished
    rawInputs,  \* table input of the node database (raw id = position)
    rawOutputs, \* table output of the node database (raw id = position)
    inputRefs,  \* raw input references of the convenience database
    outputRefs, \* raw output references of the convenience database
    worker,     \* SynchronizerCreateWorker.WatchNewInputs: position and marks
    handled,    \* raw ids HandleInput / HandleOutput got in the current run
    chainLogs,  \* the OutputExecuted events of the application, oldest first
    listener    \* VoucherExecListener: position, context and subscription

execVars == <<chainLogs, listener>>

syncVars == <<rawInputs, rawOutputs, inputRefs, outputRefs, worker, handled>>

vars == <<inputs, inspects, state, vouchers, notices, reports, last, finished,
          syncVars, execVars>>

\* ------------------------------------------------------ input repository

RowsWithIndex(rows, index) == {k \in DOMAIN rows : rows[k].index = index}

Min(S) == CHOOSE x \in S : \A y \in S : x <= y

\* SELECT ... WHERE input_index = $1, first row
FindByIndex(rows, index) ==
    IF RowsWithIndex(rows, index) = {} THEN NoRow
    ELSE rows[Min(RowsWithIndex(rows, index))]

\* SELECT ... WHERE input_index = $1 AND app_contract = $2, first row
FindInputByAppContractAndIndex(rows, index, app) ==
    LET ks == {k \in RowsWithIndex(rows, index) : rows[k].app = app}
    IN  IF ks = {} THEN NoRow ELSE rows[Min(ks)]

\* INSERT INTO convenience_inputs
rawCreate(rows, input) == Append(rows, input)

\* a Create that writes the delivered status over a stored row
CreateOverStoredRow(rows, input) ==
    IF FindByIndex(rows, input.index) # NoRow
    THEN [k \in DOMAIN rows |->
            IF rows[k].index = input.index
            THEN [rows[k] EXCEPT !.status = input.status] ELSE rows[k]]
    ELSE rawCreate(rows, input)

\* a Create that inserts without looking the index up
CreateWithoutLookup(rows, input) == rawCreate(rows, input)

\* an index that is already stored is not inserted again
Create(rows, input) ==
    IF FindByIndex(rows, input.index) # NoRow THEN rows
    ELSE rawCreate(rows, input)

\* an Update that sets the exception column only
UpdateExceptionOnly(rows, input) ==
    [k \in DOMAIN rows |->
        IF rows[k].index = input.index
        THEN [rows[k] EXCEPT !.exception = input.exception]
        ELSE rows[k]]

\* the input InputRepository.Create returns: the stored one (exist) when the
\* index is stored, else the one it inserted
CreateResult(rows, input) ==
    IF FindByIndex(rows, input.index) # NoRow
    THEN FindByIndex(rows, input.index) ELSE input

\* UPDATE convenience_inputs SET status, exception WHERE input_index = $3
Update(rows, input) ==
    [k \in DOMAIN rows |->
        IF rows[k].index = input.index
        THEN [rows[k] EXCEPT !.status = input.status,
                             !.exception = input.exception]
        ELSE rows[k]]

\* a FindByStatus whose query matches no row
FindByStatusNoRows(rows, status) == {}

\* a FindByStatus without ORDER BY: the rows come in insertion order
FindByStatusUnordered(rows, status) ==
    LET ks == {k \in DOMAIN rows : rows[k].status = status}
    IN  IF ks = {} THEN {} ELSE {Min(ks)}

\* SELECT ... WHERE status = $1 ORDER BY input_index ASC: the rows the first
\* res.Next() may yield (rows of equal index come in no defined order)
FindByStatus(rows, status) ==
    LET ks == {k \in DOMAIN rows : rows[k].status = status}
    IN  {k \in ks : \A j \in ks : rows[k].index <= rows[j].index}

\* ----------------------------------------------- output repositories

KeyRows(rows, inputIndex, outputIndex) ==
    {r \in rows : r.inputIndex = inputIndex /\ r.outputIndex = outputIndex}

\* NoticeRepository.FindByInputAndOutputIndex: ... LIMIT 1
NoticeFind(rows, inputIndex, outputIndex) ==
    KeyRows(rows, inputIndex, outputIndex) # {}

\* NoticeRepository.Create: INSERT; PRIMARY KEY (input_index, output_index)
NoticeCreate(rows, data) ==
    IF KeyRows(rows, data.inputIndex, data.outputIndex) # {}
    THEN [err |-> "unique", rows |-> rows]
    ELSE [err |-> "none", rows |-> rows \cup {data}]

\* NoticeRepository.Update: UPDATE convenience_notices SET payload = $1
NoticeUpdate(rows, data) ==
    [err |-> "none",
     rows |-> {IF r \in KeyRows(rows, data.inputIndex, data.outputIndex)
               THEN [r EXCEPT !.payload = data.payload] ELSE r : r \in rows}]

\* ReportRepository.FindByInputAndOutputIndex: SELECT payload ... LIMIT 1;
\* the report it builds carries no app contract
ReportFind(rows, inputIndex, outputIndex) ==
    IF KeyRows(rows, inputIndex, outputIndex) = {} THEN NoRow
    ELSE LET r == CHOOSE r \in KeyRows(rows, inputIndex, outputIndex) : TRUE
         IN  [inputIndex |-> inputIndex, outputIndex |-> outputIndex,
              payload |-> r.payload, app |-> ZeroAddress]

\* ReportRepository.Create: INSERT; PRIMARY KEY (input_index, output_index)
ReportCreate(rows, report) ==
    IF KeyRows(rows, report.inputIndex, report.outputIndex) # {}
    THEN [err |-> "unique", rows |-> rows]
    ELSE [err |-> "none", rows |-> rows \cup {report}]

\* ReportRepository.Update: UPDATE convenience_reports SET payload = $1
ReportUpdate(rows, report) ==
    [err |-> "none",
     rows |-> {IF r \in KeyRows(rows, report.inputIndex, report.outputIndex)
               THEN [r EXCEPT !.payload = report.payload] ELSE r : r \in rows}]

\* VoucherRepository.FindVoucherByInputAndOutputIndex
VoucherFind(rows, inputIndex, outputIndex) ==
    KeyRows(rows, inputIndex, outputIndex) # {}

\* VoucherRepository.CreateVoucher: key (input_index, output_index)
VoucherCreate(rows, voucher) ==
    IF KeyRows(rows, voucher.inputIndex, voucher.outputIndex) # {}
    THEN [err |-> "unique", rows |-> rows]
    ELSE [err |-> "none", rows |-> rows \cup {voucher}]

\* VoucherRepository.UpdateVoucher: the row of the key is updated in place
VoucherUpdate(rows, voucher) ==
    [err |-> "none",
     rows |-> {IF r \in KeyRows(rows, voucher.inputIndex, voucher.outputIndex)
               THEN voucher ELSE r : r \in rows}]

\* ---------------------------------------------------- convenience service

\* ConvenienceService.CreateNotice
CreateNotice(rows, notice) ==
    IF NoticeFind(rows, notice.inputIndex, notice.outputIndex)
    THEN NoticeUpdate(rows, notice)
    ELSE NoticeCreate(rows, notice)

\* ConvenienceService.CreateVoucher
CreateVoucher(rows, voucher) ==
    IF VoucherFind(rows, voucher.inputIndex, voucher.outputIndex)
    THEN VoucherUpdate(rows, voucher)
    ELSE VoucherCreate(rows, voucher)

\* ConvenienceService.CreateReport: an existing report is updated with the
\* report that was read back (reportInDb), not with the candidate
CreateReport(rows, report) ==
    LET reportInDb == ReportFind(rows, report.inputIndex, report.outputIndex)
    IN  IF reportInDb # NoRow THEN ReportUpdate(rows, reportInDb)
        ELSE ReportCreate(rows, report)

\* ConvenienceService.CreateInput
CreateInput(rows, input) ==
    IF FindInputByAppContractAndIndex(rows, input.index, input.app) # NoRow
    THEN Update(rows, input)
    ELSE Create(rows, input)

\* ------------------------------------------------------- rollups state

\* rollupsStateIdle
newRollupsStateIdle ==
    [kind |-> "Idle", index |-> -1, app |-> ZeroAddress,
     exception |-> NoPayload, nVouchers |-> 0, nNotices |-> 0, nReports |-> 0]

\* rollupsStateAdvance: the input FindByStatus returned, no output yet
newRollupsStateAdvance(input) ==
    [kind |-> "Advance", index |-> input.index, app |-> input.app,
     exception |-> input.exception,
     nVouchers |-> 0, nNotices |-> 0, nReports |-> 0]

\* rollupsStateInspect: a pointer to the inspect input m.inspects[index]
newRollupsStateInspect(index) ==
    [kind |-> "Inspect", index |-> index, app |-> ZeroAddress,
     exception |-> NoPayload, nVouchers |-> 0, nNotices |-> 0, nReports |-> 0]

\* the AdvanceInput the advance state holds, with the given status
StateInput(st, status) ==
    [index |-> st.index, app |-> st.app, status |-> status,
     exception |-> st.exception]

\* rollupsState.finish: Idle has nothing to finish; Advance persists the
\* status and the exception payload of its input (the persistence may fail);
\* Inspect updates the in-memory inspect input only
finish(st, status, dbOk, inputRows, inspectSeq) ==
    IF st.kind = "Advance"
    THEN IF dbOk
         THEN [err |-> "none", inputs |-> Update(inputRows, StateInput(st, status)),
               inspects |-> inspectSeq]
         ELSE [err |-> "db", inputs |-> inputRows, inspects |-> inspectSeq]
    ELSE IF st.kind = "Inspect"
    THEN [err |-> "none", inputs |-> inputRows,
          inspects |-> [inspectSeq EXCEPT ![st.index].status = status]]
    ELSE [err |-> "none", inputs |-> inputRows, inspects |-> inspectSeq]

\* rollupsState.addVoucher: only the advance state takes a voucher; it gets
\* the next voucher index of the input and goes to the convenience service
addVoucher(st, destination, payload, rows) ==
    IF st.kind # "Advance" THEN [err |-> "state", rows |-> rows, st |-> st]
    ELSE LET r == CreateVoucher(rows,
                    [inputIndex |-> st.index, outputIndex |-> st.nVouchers,
                     destination |-> destination, payload |-> payload,
                     executed |-> FALSE, app |-> st.app])
         IN  [err |-> r.err, rows |-> r.rows,
              st |-> IF r.err = "none"
                     THEN [st EXCEPT !.nVouchers = @ + 1] ELSE st]

\* an addNotice that the inspect state takes as well
addNoticeInInspect(st, payload, rows) ==
    IF st.kind = "Idle" THEN [err |-> "state", rows |-> rows, st |-> st]
    ELSE LET r == CreateNotice(rows,
                    [inputIndex |-> st.index, outputIndex |-> st.nNotices,
                     payload |-> payload, app |-> st.app])
         IN  [err |-> r.err, rows |-> r.rows,
              st |-> IF r.err = "none"
                     THEN [st EXCEPT !.nNotices = @ + 1] ELSE st]

\* rollupsState.addNotice: as addVoucher, for a notice
addNotice(st, payload, rows) ==
    IF st.kind # "Advance" THEN [err |-> "state", rows |-> rows, st |-> st]
    ELSE LET r == CreateNotice(rows,
                    [inputIndex |-> st.index, outputIndex |-> st.nNotices,
                     payload |-> payload, app |-> st.app])
         IN  [err |-> r.err, rows |-> r.rows,
              st |-> IF r.err = "none"
                     THEN [st EXCEPT !.nNotices = @ + 1] ELSE st]

\* an addReport that only the advance state takes
addReportInAdvanceOnly(st, payload, rows, inspectSeq) ==
    IF st.kind = "Advance"
    THEN LET r == CreateReport(rows,
                    [inputIndex |-> st.index, outputIndex |-> st.nReports,
                     payload |-> payload, app |-> st.app])
         IN  [err |-> r.err, rows |-> r.rows, inspects |-> inspectSeq,
              st |-> IF r.err = "none"
                     THEN [st EXCEPT !.nReports = @ + 1] ELSE st]
    ELSE [err |-> "state", rows |-> rows, inspects |-> inspectSeq, st |-> st]

\* rollupsState.addReport: the advance state persists the report; the inspect
\* state keeps it on the in-memory inspect input; idle refuses it
addReport(st, payload, rows, inspectSeq) ==
    IF st.kind = "Advance"
    THEN LET r == CreateReport(rows,
                    [inputIndex |-> st.index, outputIndex |-> st.nReports,
                     payload |-> payload, app |-> st.app])
         IN  [err |-> r.err, rows |-> r.rows, inspects |-> inspectSeq,
              st |-> IF r.err = "none"
                     THEN [st EXCEPT !.nReports = @ + 1] ELSE st]
    ELSE IF st.kind = "Inspect"
    THEN [err |-> "none", rows |-> rows,
          inspects |-> [inspectSeq EXCEPT ![st.index].reports = @ + 1],
          st |-> [st EXCEPT !.nReports = @ + 1]]
    ELSE [err |-> "state", rows |-> rows, inspects |-> inspectSeq, st |-> st]

\* rollupsState.registerException: the advance state persists status
\* Exception and the payload on its input; the inspect state records them on
\* the in-memory inspect input; idle refuses
registerException(st, payload, inputRows, inspectSeq) ==
    IF st.kind = "Advance"
    THEN [err |-> "none",
          inputs |-> Update(inputRows,
                        [StateInput(st, Exception) EXCEPT !.exception = payload]),
          inspects |-> inspectSeq]
    ELSE IF st.kind = "Inspect"
    THEN [err |-> "none", inputs |-> inputRows,
          inspects |-> [inspectSeq EXCEPT ![st.index].status = Exception,
                                          ![st.index].exception = payload]]
    ELSE [err |-> "state", inputs |-> inputRows, inspects |-> inspectSeq]

\* ------------------------------------------------------ raw repository

\* the elements of a set of numbers, ascending
RECURSIVE Ascending(_)
Ascending(S) == IF S = {} THEN << >> ELSE <<Min(S)>> \o Ascending(S \ {Min(S)})

Max(S) == CHOOSE x \in S : \A y \in S : x >= y

\* the elements of a set of numbers, descending
RECURSIVE Descending(_)
Descending(S) ==
    IF S = {} THEN << >> ELSE <<Max(S)>> \o Descending(S \ {Max(S)})

FirstRows(ids, limit) ==
    SubSeq(ids, 1, IF Len(ids) < limit THEN Len(ids) ELSE limit)

\* a FindAllInputsByFilter that orders by ID DESC
FindAllInputsDescending(rows, idgt, limit) ==
    FirstRows(Descending({k \in DOMAIN rows : rows[k].id >= idgt}), limit)

\* RawRepository.FindAllInputsByFilter: SELECT * FROM input WHERE ID >= $1
\* ORDER BY ID ASC LIMIT $2; the positions of the rows, in result order
FindAllInputsByFilter(rows, idgt, limit) ==
    FirstRows(Ascending({k \in DOMAIN rows : rows[k].id >= idgt}), limit)

\* RawRepository.FindAllOutputsByFilter: SELECT * FROM output WHERE ID >= $1
\* ORDER BY ID ASC LIMIT $2
FindAllOutputsByFilter(rows, idgt, limit) ==
    FirstRows(Ascending({k \in DOMAIN rows : rows[k].id >= idgt}), limit)

\* RawRepository.FindInputByOutput: SELECT * FROM input WHERE input.id = $1
FindInputByOutput(rows, id) ==
    IF \E k \in DOMAIN rows : rows[k].id = id
    THEN rows[CHOOSE k \in DOMAIN rows : rows[k].id = id] ELSE NoRow

\* ------------------------------------------------- raw reference tables

\* RawInputRefRepository.GetLatestRawId / RawOutputRefRepository
\* .GetLatestOutputRawId: the highest raw id that has a reference, else 0
GetLatestRawId(refs) ==
    IF refs = {} THEN 0 ELSE Max({r.rawId : r \in refs})

\* RawInputRefRepository.Create / RawOutputRefRepository.Create: a raw id
\* that has a reference gets no second one
RefCreate(refs, ref) ==
    IF \E r \in refs : r.rawId = ref.rawId THEN refs ELSE refs \cup {ref}

\* ---------------------------------------------- synchronizer, per batch

\* commons.ConvertStatusStringToCompletionStatus
ConvertStatusStringToCompletionStatus(status) ==
    IF status = "ACCEPTED" THEN Accepted
    ELSE IF status = "REJECTED" THEN Rejected
    ELSE Unprocessed

\* SynchronizerCreateWorker.GetAdvanceInputFromMap
GetAdvanceInputFromMap(raw) ==
    [index |-> raw.index, app |-> raw.app,
     status |-> ConvertStatusStringToCompletionStatus(raw.status),
     exception |-> NoPayload, payload |-> raw.payload]

\* InputRepository.Create called with the context of a transaction:
\* FindByIndex queries r.Db, which sees the committed rows, and rawCreate
\* executes on the transaction
TxCreate(committed, txRows, input) ==
    IF FindByIndex(committed, input.index) # NoRow THEN txRows
    ELSE rawCreate(txRows, input)

\* a HandleInput that inserts the input without looking the index up
HandleInputRawCreate(tx, committed, raw, fail) ==
    IF fail = "decode"
    THEN [err |-> fail, inputs |-> tx.inputs, refs |-> tx.refs, id |-> 0]
    ELSE LET created == rawCreate(tx.inputs, GetAdvanceInputFromMap(raw))
         IN  IF fail = "createRef"
             THEN [err |-> fail, inputs |-> created, refs |-> tx.refs,
                   id |-> 0]
             ELSE [err |-> "none", inputs |-> created,
                   refs |-> RefCreate(tx.refs,
                                [rawId |-> raw.id, index |-> raw.index,
                                 app |-> raw.app, status |-> raw.status]),
                   id |-> raw.id]

\* SynchronizerCreateWorker.HandleInput: decode, create the input, create the
\* raw input reference; any of them may fail
HandleInput(tx, committed, raw, fail) ==
    IF fail = "decode"
    THEN [err |-> fail, inputs |-> tx.inputs, refs |-> tx.refs, id |-> 0]
    ELSE LET created == TxCreate(committed, tx.inputs,
                                 GetAdvanceInputFromMap(raw))
         IN  IF fail = "createRef"
             THEN [err |-> fail, inputs |-> created, refs |-> tx.refs,
                   id |-> 0]
             ELSE [err |-> "none", inputs |-> created,
                   refs |-> RefCreate(tx.refs,
                                [rawId |-> raw.id, index |-> raw.index,
                                 app |-> raw.app, status |-> raw.status]),
                   id |-> raw.id]

\* a loop that moves the mark past the row whose HandleInput failed
RECURSIVE HandleInputsPastError(_, _, _, _, _, _, _)
HandleInputsPastError(rawRows, batch, k, acc, committed, failAt, failKind) ==
    IF k > Len(batch) THEN acc
    ELSE LET raw == rawRows[batch[k]]
             h == HandleInput([inputs |-> acc.inputs, refs |-> acc.refs],
                              committed, raw,
                              IF k = failAt THEN failKind ELSE "none")
             seen == Append(acc.handled, raw.id)
         IN  IF h.err # "none"
             THEN [acc EXCEPT !.err = h.err, !.inputs = h.inputs,
                              !.refs = h.refs, !.handled = seen,
                              !.latestRawID = raw.id + 1]
             ELSE HandleInputsPastError(rawRows, batch, k + 1,
                      [err |-> "none", inputs |-> h.inputs, refs |-> h.refs,
                       latestRawID |-> h.id + 1, handled |-> seen],
                      committed, failAt, failKind)

\* the loop of syncInputCreation over the batch, from its k-th row
RECURSIVE HandleInputs(_, _, _, _, _, _, _)
HandleInputs(rawRows, batch, k, acc, committed, failAt, failKind) ==
    IF k > Len(batch) THEN acc
    ELSE LET raw == rawRows[batch[k]]
             h == HandleInput([inputs |-> acc.inputs, refs |-> acc.refs],
                              committed, raw,
                              IF k = failAt THEN failKind ELSE "none")
             seen == Append(acc.handled, raw.id)
         IN  IF h.err # "none"
             THEN [acc EXCEPT !.err = h.err, !.inputs = h.inputs,
                              !.refs = h.refs, !.handled = seen]
             ELSE HandleInputs(rawRows, batch, k + 1,
                      [err |-> "none", inputs |-> h.inputs, refs |-> h.refs,
                       latestRawID |-> h.id + 1, handled |-> seen],
                      committed, failAt, failKind)

\* SynchronizerCreateWorker.syncInputCreation
syncInputCreation(rawRows, latestRawID, limit, committed, failAt, failKind) ==
    HandleInputs(rawRows, FindAllInputsByFilter(rawRows, latestRawID, limit), 1,
                 [err |-> "none", inputs |-> committed.inputs,
                  refs |-> committed.refs, latestRawID |-> latestRawID,
                  handled |-> << >>],
                 committed.inputs, failAt, failKind)

\* a rollback that keeps what the transaction wrote
rollbackKeepingWrites(committed, tx) ==
    [inputs |-> tx.inputs, refs |-> tx.refs]

\* SynchronizerCreateWorker.rollbackTransaction: the writes are dropped
rollbackTransaction(committed, tx) == committed

\* SynchronizerCreateWorker.commitTransaction: tx.Commit() may fail
commitTransaction(committed, tx, ok) ==
    IF ok THEN [inputs |-> tx.inputs, refs |-> tx.refs] ELSE committed

\* SynchronizerCreateWorker.SyncInputCreation: the tables and the mark it
\* returns. outcome is "ok", or what fails: "start", "commit", or a
\* HandleInput stage ("decode", "createRef") at the failAt-th row
SyncInputCreation(rawRows, latestRawID, limit, committed, failAt, outcome) ==
    IF outcome = "start"
    THEN [err |-> outcome, db |-> committed, latestRawID |-> latestRawID,
          handled |-> << >>]
    ELSE LET res == syncInputCreation(rawRows, latestRawID, limit, committed,
                        failAt,
                        IF outcome \in {"decode", "createRef"}
                        THEN outcome ELSE "none")
         IN  IF res.err # "none"
             THEN [err |-> res.err, db |-> rollbackTransaction(committed, res),
                   latestRawID |-> res.latestRawID, handled |-> res.handled]
             ELSE [err |-> IF outcome = "commit" THEN outcome ELSE "none",
                   db |-> commitTransaction(committed, res,
                                            outcome # "commit"),
                   latestRawID |-> res.latestRawID, handled |-> res.handled]

\* model.VOUCHER_SELECTOR, the first four bytes of a voucher payload
VOUCHER_SELECTOR == <<"ef", "61", "5e", "2f">>

\* the bytes abi Unpack needs at least for the inputs of Voucher: here the
\* destination alone
AbiVoucherLen == 1

\* RemoveSelector that keeps the whole payload
RemoveSelectorKeepingIt(payload) == payload

\* SynchronizerCreateWorker.RemoveSelector: "0x" and payload[10:], the bytes
\* after the fourth
RemoveSelector(payload) == SubSeq(payload, 5, Len(payload))

\* SynchronizerCreateWorker.RetrieveDestination: the first value abi Unpack
\* reads from payload[10:], or its error
RetrieveDestination(payload) ==
    LET body == SubSeq(payload, 5, Len(payload))
    IN  IF Len(body) < AbiVoucherLen
        THEN [err |-> "destination", destination |-> ""]
        ELSE [err |-> "none", destination |-> body[1]]

\* strconv.Atoi of the text of an output index: the number of a decimal text,
\* 0 and an error for any other text
strconvAtoi(text) ==
    IF \E n \in 0..9 : ToString(n) = text
    THEN [err |-> "none", value |-> CHOOSE n \in 0..9 : ToString(n) = text]
    ELSE [err |-> "syntax", value |-> 0]

\* SynchronizerCreateWorker.HandleOutput with GetRawOutputRef:
\* FindInputByOutput returns nil and no error when no input has the id, and
\* input.Index then panics; the error of strconv.Atoi is printed and the
\* index is 0; strPayload is
\* "0x" and the payload's bytes in hex; strPayload[2:10] is out of range (the
\* goroutine panics) for fewer than four bytes; a payload that begins with
\* VOUCHER_SELECTOR goes to CreateVoucher with Executed = false, any other to
\* CreateNotice, both without an app contract; then the raw output reference
\* is created
HandleOutput(db, rawRows, output, fail) ==
    IF fail = "decode"
    THEN [err |-> fail, db |-> db, id |-> 0]
    ELSE IF FindInputByOutput(rawRows, output.inputId) = NoRow
    THEN [err |-> "panic", db |-> db, id |-> 0]
    ELSE IF Len(output.payload) < 4
    THEN [err |-> "panic", db |-> db, id |-> 0]
    ELSE LET input == FindInputByOutput(rawRows, output.inputId)
             outputIndex == strconvAtoi(output.index).value
             isVoucher == SubSeq(output.payload, 1, 4) = VOUCHER_SELECTOR
             dest == RetrieveDestination(output.payload)
             res == IF isVoucher
                    THEN CreateVoucher(db.vouchers,
                            [inputIndex |-> input.index,
                             outputIndex |-> outputIndex,
                             destination |-> dest.destination,
                             payload |-> RemoveSelector(output.payload),
                             executed |-> FALSE, app |-> ZeroAddress])
                    ELSE CreateNotice(db.notices,
                            [inputIndex |-> input.index,
                             outputIndex |-> outputIndex,
                             payload |-> RemoveSelector(output.payload),
                             app |-> ZeroAddress])
             written == IF isVoucher
                        THEN [db EXCEPT !.vouchers = res.rows]
                        ELSE [db EXCEPT !.notices = res.rows]
         IN  IF isVoucher /\ dest.err # "none"
             THEN [err |-> dest.err, db |-> db, id |-> 0]
             ELSE IF res.err # "none"
             THEN [err |-> res.err, db |-> db, id |-> 0]
             ELSE IF fail = "createRef"
             THEN [err |-> fail, db |-> written, id |-> 0]
             ELSE [err |-> "none",
                   db |-> [written EXCEPT !.refs =
                            RefCreate(written.refs,
                                [rawId |-> output.id, index |-> input.index,
                                 outputIndex |-> outputIndex,
                                 app |-> input.app, type |-> "voucher"])],
                   id |-> output.id]

\* the loop of SyncOutputCreation over the batch, from its k-th row
RECURSIVE HandleOutputs(_, _, _, _, _, _, _)
HandleOutputs(rawRows, outputRows, batch, k, acc, failAt, failKind) ==
    IF k > Len(batch) THEN acc
    ELSE LET h == HandleOutput(acc.db, rawRows, outputRows[batch[k]],
                               IF k = failAt THEN failKind ELSE "none")
             seen == Append(acc.handled, outputRows[batch[k]].id)
         IN  IF h.err # "none"
             THEN [acc EXCEPT !.err = h.err, !.db = h.db, !.handled = seen]
             ELSE HandleOutputs(rawRows, outputRows, batch, k + 1,
                      [err |-> "none", db |-> h.db,
                       latestRawID |-> h.id + 1, handled |-> seen],
                      failAt, failKind)

\* SynchronizerCreateWorker.SyncOutputCreation: no transaction
SyncOutputCreation(rawRows, outputRows, latestRawID, limit, db, failAt, failKind) ==
    HandleOutputs(rawRows, outputRows,
                  FindAllOutputsByFilter(outputRows, latestRawID, limit), 1,
                  [err |-> "none", db |-> db, latestRawID |-> latestRawID,
                   handled |-> << >>],
                  failAt, failKind)

NothingHandled == [inputs |-> << >>, outputs |-> << >>]

\* the listener before Start; seen is a history of the (input index, voucher
\* index) pairs OnEvent has passed to UpdateExecuted; round is a history of
\* the positions of the logs given to HandleLog since the last historical
\* read began, missed one of the positions of the logs emitted after it and
\* before the subscription
IdleListener ==
    [pc |-> "idle", cancelled |-> FALSE, err |-> "none", next |-> 1,
     seen |-> {}, round |-> {}, missed |-> {}]

\* WatchNewInputs has not been called
StoppedWorker ==
    [pc |-> "stopped", cancelled |-> FALSE, err |-> "none",
     latestRawID |-> 0, latestOutputRawId |-> 0]

\* ------------------------------------------------------------- actions

Call(op, arg, err, kind, index) ==
    [op |-> op, arg |-> arg, err |-> err, kind |-> kind, index |-> index]

Init ==
    /\ inputs = << >>
    /\ inspects = << >>
    /\ state = newRollupsStateIdle
    /\ vouchers = {}
    /\ notices = {}
    /\ reports = {}
    /\ last = Call("init", "", "none", "none", -1)
    /\ finished = {}
    /\ rawInputs = << >>
    /\ rawOutputs = << >>
    /\ inputRefs = {}
    /\ outputRefs = {}
    /\ worker = StoppedWorker
    /\ handled = NothingHandled
    /\ chainLogs = << >>
    /\ listener = IdleListener

\* NonodoModel.AddAdvanceInput: the input is created Unprocessed, without an
\* app contract; a repository error is returned
AddAdvanceInput(index, payload, dbOk) ==
    LET input == [index |-> index, app |-> ZeroAddress, status |-> Unprocessed,
                  exception |-> NoPayload, payload |-> payload]
    IN  /\ inputs' = IF dbOk THEN Create(inputs, input) ELSE inputs
        /\ last' = Call("AddAdvanceInput", "",
                        IF dbOk THEN "none" ELSE "db", "none", -1)
        /\ UNCHANGED <<inspects, state, vouchers, notices, reports, finished, syncVars, execVars>>

\* an AddInspectInput that stores the inspect input as an input row too
AddInspectInputStored ==
    /\ Len(inspects) < MaxInspects
    /\ inspects' = Append(inspects,
            [status |-> Unprocessed, exception |-> NoPayload, reports |-> 0])
    /\ inputs' = rawCreate(inputs,
            [index |-> Len(inspects), app |-> ZeroAddress,
             status |-> Unprocessed, exception |-> NoPayload,
             payload |-> NoPayload])
    /\ last' = Call("AddInspectInput", "", "none", "none", Len(inspects))
    /\ UNCHANGED <<state, vouchers, notices, reports, finished, syncVars, execVars>>

\* NonodoModel.AddInspectInput: index := len(m.inspects); append
AddInspectInput ==
    /\ Len(inspects) < MaxInspects
    /\ inspects' = Append(inspects,
            [status |-> Unprocessed, exception |-> NoPayload, reports |-> 0])
    /\ last' = Call("AddInspectInput", "", "none", "none", Len(inspects))
    /\ UNCHANGED <<inputs, state, vouchers, notices, reports, finished, syncVars, execVars>>

BoolArg(b) == IF b THEN "true" ELSE "false"

\* a FinishAndGetNext that gives the input up when finish returned an error
DropInputOnFinishError(accepted) ==
    /\ last' = Call("FinishAndGetNext", BoolArg(accepted), "dbFinish", "none", -1)
    /\ state' = newRollupsStateIdle
    /\ UNCHANGED <<inputs, inspects, vouchers, notices, reports, syncVars, execVars>>

\* NonodoModel.FinishAndGetNext, finish returned an error: return nil, err
ReturnFinishError(accepted) ==
    /\ last' = Call("FinishAndGetNext", BoolArg(accepted), "dbFinish", "none", -1)
    /\ UNCHANGED <<inputs, inspects, state, vouchers, notices, reports, syncVars, execVars>>

\* a loop over m.inspects that never finds an unprocessed inspect input
NoPendingInspects(inspectSeq) == {}

\* NonodoModel.FinishAndGetNext, the loop over m.inspects: the inspect inputs
\* that are Unprocessed (the first of them is dispatched)
PendingInspects(inspectSeq) ==
    {k \in DOMAIN inspectSeq : inspectSeq[k].status = Unprocessed}

\* NonodoModel.FinishAndGetNext
FinishAndGetNext(accepted, finishOk, findOk) ==
    LET status == IF accepted THEN Accepted ELSE Rejected
        fin == finish(state, status, finishOk, inputs, inspects)
        pending == PendingInspects(fin.inspects)
        op == "FinishAndGetNext"
    IN  IF fin.err # "none"
        THEN ReturnFinishError(accepted)
        ELSE /\ inputs' = fin.inputs
             /\ inspects' = fin.inspects
             /\ UNCHANGED <<vouchers, notices, reports, syncVars, execVars>>
             /\ IF pending # {}
                THEN \* first unprocessed inspect
                     /\ state' = newRollupsStateInspect(Min(pending))
                     /\ last' = Call(op, BoolArg(accepted), "none", "inspect",
                                     Min(pending))
                ELSE IF ~findOk
                THEN \* FindByStatus failed: return nil, err
                     /\ state' = state
                     /\ last' = Call(op, BoolArg(accepted), "dbFind", "none", -1)
                ELSE IF FindByStatus(fin.inputs, Unprocessed) # {}
                THEN \* first unprocessed advance
                     \E k \in FindByStatus(fin.inputs, Unprocessed) :
                        /\ state' = newRollupsStateAdvance(fin.inputs[k])
                        /\ last' = Call(op, BoolArg(accepted), "none",
                                        "advance", fin.inputs[k].index)
                ELSE \* no input was found
                     /\ state' = newRollupsStateIdle
                     /\ last' = Call(op, BoolArg(accepted), "none", "none", -1)

\* an AddVoucher whose voucher takes the index of the one before it
AddVoucherSameIndex(limit, destination, payload) ==
    LET res == addVoucher(state, destination, payload, vouchers)
    IN  /\ state.nVouchers < limit
        /\ vouchers' = res.rows
        /\ state' = state
        /\ last' = Call("AddVoucher", "", res.err, "none",
                        IF res.err = "none" THEN state.nVouchers ELSE -1)
        /\ UNCHANGED <<inputs, inspects, notices, reports, finished, syncVars, execVars>>

\* NonodoModel.AddVoucher, for an input with fewer than limit vouchers
AddVoucherWithin(limit, destination, payload) ==
    LET res == addVoucher(state, destination, payload, vouchers)
    IN  /\ state.nVouchers < limit
        /\ vouchers' = res.rows
        /\ state' = res.st
        /\ last' = Call("AddVoucher", "", res.err, "none",
                        IF res.err = "none" THEN state.nVouchers ELSE -1)
        /\ UNCHANGED <<inputs, inspects, notices, reports, finished, syncVars, execVars>>

\* NonodoModel.AddVoucher
AddVoucher(destination, payload) ==
    AddVoucherWithin(MaxOutputs, destination, payload)

\* NonodoModel.AddNotice, for an input with fewer than limit notices
AddNoticeWithin(limit, payload) ==
    LET res == addNotice(state, payload, notices)
    IN  /\ state.nNotices < limit
        /\ notices' = res.rows
        /\ state' = res.st
        /\ last' = Call("AddNotice", "", res.err, "none",
                        IF res.err = "none" THEN state.nNotices ELSE -1)
        /\ UNCHANGED <<inputs, inspects, vouchers, reports, finished, syncVars, execVars>>

\* NonodoModel.AddNotice
AddNotice(payload) == AddNoticeWithin(MaxOutputs, payload)

\* NonodoModel.AddReport, for an input with fewer than limit reports
AddReportWithin(limit, payload) ==
    LET res == addReport(state, payload, reports, inspects)
    IN  /\ state.nReports < limit
        /\ reports' = res.rows
        /\ inspects' = res.inspects
        /\ state' = res.st
        /\ last' = Call("AddReport", "", res.err, "none",
                        IF res.err = "none" THEN state.nReports ELSE -1)
        /\ UNCHANGED <<inputs, vouchers, notices, finished, syncVars, execVars>>

\* NonodoModel.AddReport
AddReport(payload) == AddReportWithin(MaxOutputs, payload)

\* a RegisterException that leaves the state as it is
RegisterExceptionKeepingState(payload) ==
    LET res == registerException(state, payload, inputs, inspects)
    IN  /\ inputs' = res.inputs
        /\ inspects' = res.inspects
        /\ state' = state
        /\ last' = Call("RegisterException", payload, res.err, "none", -1)
        /\ UNCHANGED <<vouchers, notices, reports, finished, syncVars, execVars>>

\* NonodoModel.RegisterException: on an error the state is kept, otherwise
\* the state is set to idle
RegisterException(payload) ==
    LET res == registerException(state, payload, inputs, inspects)
    IN  /\ inputs' = res.inputs
        /\ inspects' = res.inspects
        /\ state' = IF res.err # "none" THEN state ELSE newRollupsStateIdle
        /\ last' = Call("RegisterException", payload, res.err, "none", -1)
        /\ UNCHANGED <<vouchers, notices, reports, finished, syncVars, execVars>>

\* a caller of ConvenienceService.CreateInput delivering an input
CallCreateInput(index, app, status, payload) ==
    LET input == [index |-> index, app |-> app, status |-> status,
                  exception |-> NoPayload, payload |-> payload]
    IN  /\ inputs' = CreateInput(inputs, input)
        /\ last' = Call("CreateInput", app, "none", "none", index)
        /\ UNCHANGED <<inspects, state, vouchers, notices, reports, finished, syncVars, execVars>>

\* the history variable: the advance inputs a successful FinishAndGetNext
\* has finished
Tracked ==
    finished' = IF last'.err = "none" /\ state.kind = "Advance"
                THEN finished \cup {state.index} ELSE finished

\* the rollup state machine driven by its callers
Next ==
    \/ \E i \in Indexes, p \in InputPayloads, ok \in BOOLEAN :
            AddAdvanceInput(i, p, ok)
    \/ AddInspectInput
    \/ \E accepted \in BOOLEAN, finishOk \in BOOLEAN, findOk \in BOOLEAN :
            FinishAndGetNext(accepted, finishOk, findOk) /\ Tracked
    \/ \E d \in Destinations, p \in OutputPayloads : AddVoucher(d, p)
    \/ \E p \in OutputPayloads : AddNotice(p)
    \/ \E p \in OutputPayloads : AddReport(p)
    \/ \E p \in ExceptionPayloads : RegisterException(p)

Spec == Init /\ [][Next]_vars

\* the driver's call of FinishAndGetNext when the persistence does not fail
DriverFinishes ==
    \E accepted \in BOOLEAN : FinishAndGetNext(accepted, TRUE, TRUE) /\ Tracked

\* the machine when no persistence call fails: inputs arrive, at most
\* MaxInspects inspect inputs are submitted, the application adds notices and
\* raises exceptions
NextDriver ==
    \/ \E i \in Indexes, p \in InputPayloads : AddAdvanceInput(i, p, TRUE)
    \/ AddInspectInput
    \/ DriverFinishes
    \/ \E p \in OutputPayloads : AddNotice(p)
    \/ \E p \in ExceptionPayloads : RegisterException(p)

\* the driver keeps calling FinishAndGetNext
SpecDriver == Init /\ [][NextDriver]_vars /\ WF_vars(DriverFinishes)

\* the inputs of the state machine, with the convenience service delivering
\* inputs to the same store
NextDelivery ==
    \/ \E i \in Indexes, p \in InputPayloads, ok \in BOOLEAN :
            AddAdvanceInput(i, p, ok)
    \/ AddInspectInput
    \/ \E accepted \in BOOLEAN, finishOk \in BOOLEAN, findOk \in BOOLEAN :
            FinishAndGetNext(accepted, finishOk, findOk) /\ Tracked
    \/ \E p \in ExceptionPayloads : RegisterException(p)
    \/ \E i \in Indexes, a \in Apps, s \in DeliveredStatuses,
          p \in InputPayloads : CallCreateInput(i, a, s, p)

SpecDelivery == Init /\ [][NextDelivery]_vars

\* ------------------------------------------- convenience service callers

Keys == 0..MaxKey

\* the ConvenienceNotice values a caller hands to CreateNotice
NoticeCandidates ==
    [inputIndex : Keys, outputIndex : Keys, payload : {"", "1122"}, app : Apps]

\* the ConvenienceVoucher values a caller hands to CreateVoucher
VoucherCandidates ==
    [inputIndex : Keys, outputIndex : Keys, destination : Destinations,
     payload : {"", "1122"}, executed : {FALSE}, app : {ZeroAddress}]

\* a caller of ConvenienceService.CreateNotice
CallCreateNotice(notice) ==
    LET res == CreateNotice(notices, notice)
    IN  /\ notices' = res.rows
        /\ last' = Call("CreateNotice", notice.app, res.err, "none", -1)
        /\ UNCHANGED <<inputs, inspects, state, vouchers, reports, finished, syncVars, execVars>>

\* a caller of ConvenienceService.CreateVoucher
CallCreateVoucher(voucher) ==
    LET res == CreateVoucher(vouchers, voucher)
    IN  /\ vouchers' = res.rows
        /\ last' = Call("CreateVoucher", voucher.app, res.err, "none", -1)
        /\ UNCHANGED <<inputs, inspects, state, notices, reports, finished, syncVars, execVars>>

\* the convenience service upserting outputs, one call after another
NextUpsert ==
    \/ \E c \in NoticeCandidates : CallCreateNotice(c)
    \/ \E c \in VoucherCandidates : CallCreateVoucher(c)

SpecUpsert == Init /\ [][NextUpsert]_vars

\* the model.Report values a caller hands to CreateReport
ReportCandidates ==
    [inputIndex : Keys, outputIndex : Keys, payload : {"", "1122"}, app : Apps]

\* a caller of ConvenienceService.CreateReport
CallCreateReport(report) ==
    LET res == CreateReport(reports, report)
    IN  /\ reports' = res.rows
        /\ last' = Call("CreateReport", report.payload, res.err, "none", -1)
        /\ UNCHANGED <<inputs, inspects, state, vouchers, notices, finished, syncVars, execVars>>

\* the convenience service upserting reports, one call after another
NextReport == \E c \in ReportCandidates : CallCreateReport(c)

SpecReport == Init /\ [][NextReport]_vars

\* ------------------------------------------------- synchronizer worker

RawStatuses == {"NONE"}
\* the applications the node runs
RawApps == {"0xf3", "0xa1"}
HandleFailures == {"decode", "createRef"}
InputOutcomes == {"ok", "start", "commit"} \cup HandleFailures
BatchPositions == 1..LIMIT
\* a selector that is not the voucher's
OtherSelector == <<"c2", "58", "d6", "e5">>
\* the output payloads of the application: a voucher and a notice
RawPayloads == {VOUCHER_SELECTOR \o <<"d1", "11">>, OtherSelector \o <<"11">>}

\* the node stores a raw input: the next id of the table and the next index
\* of the application
NodeAddRawInput(app, status) ==
    /\ Len(rawInputs) < MaxRaw
    /\ rawInputs' = Append(rawInputs,
            [id |-> Len(rawInputs) + 1,
             index |-> Cardinality({k \in DOMAIN rawInputs :
                                        rawInputs[k].app = app}),
             app |-> app, status |-> status, payload |-> "p1"])
    /\ UNCHANGED <<inputs, inspects, state, vouchers, notices, reports, last,
                   finished, rawOutputs, inputRefs, outputRefs, worker, handled,
                   execVars>>

\* the node stores a raw output of a raw input
NodeAddRawOutput(inputId, index, payload) ==
    /\ Len(rawOutputs) < MaxRawOut
    /\ inputId \in DOMAIN rawInputs
    /\ rawOutputs' = Append(rawOutputs,
            [id |-> Len(rawOutputs) + 1, inputId |-> inputId,
             index |-> ToString(index), payload |-> payload])
    /\ UNCHANGED <<inputs, inspects, state, vouchers, notices, reports, last,
                   finished, rawInputs, inputRefs, outputRefs, worker, handled,
                   execVars>>

\* what the synchronizer steps leave alone
MachineUnchanged ==
    UNCHANGED <<inspects, state, reports, last, finished, execVars>>

\* WatchNewInputs sends the error to errCh and returns it
ReturnError(w, err) == [w EXCEPT !.pc = "returned", !.err = err]

\* WatchNewInputs up to the loop: both marks are read from the reference
\* tables; an error is returned
WatchNewInputs(ok) ==
    /\ worker.pc = "stopped"
    /\ worker' = IF ok
                 THEN [worker EXCEPT
                         !.pc = "select",
                         !.latestRawID = GetLatestRawId(inputRefs),
                         !.latestOutputRawId = GetLatestRawId(outputRefs)]
                 ELSE ReturnError(worker, "db")
    /\ MachineUnchanged
    /\ UNCHANGED <<inputs, vouchers, notices, rawInputs, rawOutputs, inputRefs,
                   outputRefs, handled>>

\* the select of the inner loop and SyncInputCreation: a cancelled context
\* ends the loop, otherwise the input batch is synchronized
SelectSyncInputCreation(outcome, failAt) ==
    /\ worker.pc = "select"
    /\ MachineUnchanged
    /\ UNCHANGED <<vouchers, notices, rawInputs, rawOutputs, outputRefs>>
    /\ IF worker.cancelled
       THEN /\ worker' = ReturnError(worker, "canceled")
            /\ UNCHANGED <<inputs, inputRefs, handled>>
       ELSE \E res \in {SyncInputCreation(rawInputs, worker.latestRawID,
                             LIMIT, [inputs |-> inputs, refs |-> inputRefs],
                             failAt, outcome)} :
                LET w == [worker EXCEPT !.latestRawID = res.latestRawID]
                IN  /\ inputs' = res.db.inputs
                    /\ inputRefs' = res.db.refs
                    /\ handled' = [handled EXCEPT !.inputs = @ \o res.handled]
                    /\ worker' = IF res.err # "none"
                                 THEN ReturnError(w, res.err)
                                 ELSE [w EXCEPT !.pc = "status"]

\* a stage whose code changes no table of this model: it succeeds or its
\* error ends the loop
Stage(pc, next, ok) ==
    /\ worker.pc = pc
    /\ worker' = IF ok THEN [worker EXCEPT !.pc = next]
                 ELSE ReturnError(worker, pc)
    /\ MachineUnchanged
    /\ UNCHANGED <<inputs, vouchers, notices, rawInputs, rawOutputs, inputRefs,
                   outputRefs, handled>>

\* s.SynchronizerUpdate.SyncInputStatus(ctx)
SyncInputStatus(ok) == Stage("status", "reports", ok)

\* s.SynchronizerReport.SyncReports(ctx)
SyncReports(ok) == Stage("reports", "output", ok)

\* s.SyncOutputCreation(ctx, latestOutputRawId, outputAbi)
SyncOutputCreationStage(failAt, failKind) ==
    /\ worker.pc = "output"
    /\ MachineUnchanged
    /\ UNCHANGED <<inputs, rawInputs, rawOutputs, inputRefs>>
    /\ \E res \in {SyncOutputCreation(rawInputs, rawOutputs,
                        worker.latestOutputRawId, LIMIT,
                        [vouchers |-> vouchers, notices |-> notices,
                         refs |-> outputRefs], failAt, failKind)} :
           LET w == [worker EXCEPT !.latestOutputRawId = res.latestRawID]
           IN  /\ vouchers' = res.db.vouchers
               /\ notices' = res.db.notices
               /\ outputRefs' = res.db.refs
               /\ handled' = [handled EXCEPT !.outputs = @ \o res.handled]
               /\ worker' = IF res.err # "none" THEN ReturnError(w, res.err)
                            ELSE [w EXCEPT !.pc = "outputUpdate"]

\* s.SynchronizerOutputUpdate.SyncOutputs(ctx)
SyncOutputs(ok) == Stage("outputUpdate", "sleep", ok)

\* <-time.After(DEFAULT_DELAY)
Sleep == Stage("sleep", "select", TRUE)

\* the governing context is cancelled
CancelContext ==
    /\ worker.pc \notin {"stopped", "returned"}
    /\ ~worker.cancelled
    /\ worker' = [worker EXCEPT !.cancelled = TRUE]
    /\ MachineUnchanged
    /\ UNCHANGED <<inputs, vouchers, notices, rawInputs, rawOutputs, inputRefs,
                   outputRefs, handled>>

\* the process is started again after WatchNewInputs has returned
Restart ==
    /\ worker.pc = "returned"
    /\ worker' = StoppedWorker
    /\ handled' = NothingHandled
    /\ MachineUnchanged
    /\ UNCHANGED <<inputs, vouchers, notices, rawInputs, rawOutputs, inputRefs,
                   outputRefs>>

NextSync ==
    \/ \E a \in RawApps, st \in RawStatuses : NodeAddRawInput(a, st)
    \/ \E id \in 1..MaxRaw, o \in Keys, p \in RawPayloads :
            NodeAddRawOutput(id, o, p)
    \/ \E ok \in BOOLEAN : WatchNewInputs(ok)
    \/ \E outcome \in InputOutcomes, k \in BatchPositions :
            SelectSyncInputCreation(outcome, k)
    \/ \E ok \in BOOLEAN : SyncInputStatus(ok)
    \/ \E ok \in BOOLEAN : SyncReports(ok)
    \/ \E k \in BatchPositions, kind \in HandleFailures \cup {"none"} :
            SyncOutputCreationStage(k, kind)
    \/ \E ok \in BOOLEAN : SyncOutputs(ok)
    \/ Sleep
    \/ CancelContext
    \/ Restart

SpecSync == Init /\ [][NextSync]_vars

\* one step of WatchNewInputs in which no stage fails and the context is
\* not cancelled
WorkerRuns ==
    \/ WatchNewInputs(TRUE)
    \/ SelectSyncInputCreation("ok", 1)
    \/ SyncInputStatus(TRUE)
    \/ SyncReports(TRUE)
    \/ SyncOutputCreationStage(1, "none")
    \/ SyncOutputs(TRUE)
    \/ Sleep

\* the node stores raw inputs while the synchronizer runs without a failure
NextSyncRuns ==
    \/ \E a \in RawApps, st \in RawStatuses : NodeAddRawInput(a, st)
    \/ WorkerRuns

\* the goroutine of WatchNewInputs is scheduled again and again
SpecSyncRuns == Init /\ [][NextSyncRuns]_vars /\ WF_vars(WorkerRuns)

\* ------------------------------------- synchronizer over stored batches

\* the raw inputs the node has stored: the first n of MaxRaw rows, which
\* alternate between the two applications
StoredRawInputs(n) ==
    [k \in 1..n |->
        [id |-> k, index |-> (k - 1) \div 2,
         app |-> IF k % 2 = 1 THEN "0xf3" ELSE "0xa1",
         status |-> "NONE", payload |-> "p1"]]

\* the raw outputs the node has stored: up to MaxBatchOut outputs of the
\* first raw input
StoredRawOutputs ==
    UNION {{[k \in 1..n |->
                [id |-> k, inputId |-> 1, index |-> ToString(k - 1),
                 payload |-> p[k]]] :
              p \in [1..n -> RawPayloads]} : n \in 0..MaxBatchOut}

\* the node database holds its rows; nothing is synchronized
InitBatch ==
    /\ inputs = << >>
    /\ inspects = << >>
    /\ state = newRollupsStateIdle
    /\ vouchers = {}
    /\ notices = {}
    /\ reports = {}
    /\ last = Call("init", "", "none", "none", -1)
    /\ finished = {}
    /\ rawInputs \in {StoredRawInputs(n) : n \in 1..MaxRaw}
    /\ rawOutputs \in StoredRawOutputs
    /\ inputRefs = {}
    /\ outputRefs = {}
    /\ worker = StoppedWorker
    /\ handled = NothingHandled
    /\ chainLogs = << >>
    /\ listener = IdleListener

\* WatchNewInputs over the stored rows
NextBatch ==
    \/ \E ok \in BOOLEAN : WatchNewInputs(ok)
    \/ \E outcome \in InputOutcomes, k \in BatchPositions :
            SelectSyncInputCreation(outcome, k)
    \/ \E ok \in BOOLEAN : SyncInputStatus(ok)
    \/ \E ok \in BOOLEAN : SyncReports(ok)
    \/ \E k \in BatchPositions, kind \in HandleFailures \cup {"none"} :
            SyncOutputCreationStage(k, kind)
    \/ \E ok \in BOOLEAN : SyncOutputs(ok)
    \/ Sleep
    \/ CancelContext
    \/ Restart

SpecBatch == InitBatch /\ [][NextBatch]_vars

\* ----------------------------------------------- voucher exec listener

\* the 64-bit words of a 256-bit event id, most significant first; the two
\* words above 64 bits of each half are zero in the ids the chain emits here
EventIds == {<<0, v, 0, i>> : v \in Keys, i \in Keys}

\* new(big.Int).Rsh(voucherId, 128)
Rsh128(id) == <<0, 0, id[1], id[2]>>

\* new(big.Int).And(voucherId, bitMask), bitMask = 0xFFFFFFFFFFFFFFFF
AndBitMask(id) == <<0, 0, 0, id[4]>>

\* big.Int.Uint64: the low word
Uint64(x) == x[4]

\* VoucherRepository.UpdateExecuted: the flag of the voucher of the key
UpdateExecuted(rows, inputIndex, outputIndex, executedValue) ==
    {IF r \in KeyRows(rows, inputIndex, outputIndex)
     THEN [r EXCEPT !.executed = executedValue] ELSE r : r \in rows}

\* OnEvent with the two indexes passed in the other order
OnEventSwapped(rows, voucherId) ==
    UpdateExecuted(rows, Uint64(Rsh128(voucherId)),
                   Uint64(AndBitMask(voucherId)), TRUE)

\* VoucherExecListener.OnEvent: the id is split and the voucher is updated
OnEvent(rows, voucherId) ==
    LET voucher == Rsh128(voucherId)
        input == AndBitMask(voucherId)
    IN  UpdateExecuted(rows, Uint64(input), Uint64(voucher), TRUE)

\* the indexes OnEvent passes to UpdateExecuted
OnEventIndexes(voucherId) ==
    [inputIndex |-> Uint64(AndBitMask(voucherId)),
     outputIndex |-> Uint64(Rsh128(voucherId))]

\* VoucherExecListener.HandleLog: a log whose event data cannot be read is
\* skipped
HandleLog(rows, vLog, ok) == IF ok THEN OnEvent(rows, vLog) ELSE rows

\* ReadPastExecutions over the old logs from the k-th, HandleLog failing for
\* the positions in skipped
RECURSIVE HandleOldLogs(_, _, _, _)
HandleOldLogs(rows, oldLogs, k, skipped) ==
    IF k > Len(oldLogs) THEN rows
    ELSE HandleOldLogs(HandleLog(rows, oldLogs[k], k \notin skipped),
                       oldLogs, k + 1, skipped)

\* the pairs OnEvent has passed to UpdateExecuted, with those of logs
Seen(seen, logs) ==
    seen \cup {<<OnEventIndexes(id).inputIndex, OnEventIndexes(id).outputIndex>> :
                  id \in logs}

\* what the listener steps leave alone
ListenerUnchanged ==
    UNCHANGED <<inputs, inspects, state, notices, reports, last, finished,
                syncVars>>

\* the application emits OutputExecuted
EmitOutputExecuted(id) ==
    /\ Len(chainLogs) < MaxLogs
    /\ chainLogs' = Append(chainLogs, id)
    /\ listener' = IF listener.pc = "subscribe"
                   THEN [listener EXCEPT !.missed = @ \cup {Len(chainLogs) + 1}]
                   ELSE listener
    /\ UNCHANGED vouchers
    /\ ListenerUnchanged

\* the vouchers the synchronizer submits: Executed is false
SyncVouchers == {c \in VoucherCandidates : c.payload = "1122"}

\* VoucherExecListener.Start is called
ListenerStart ==
    /\ listener.pc = "idle"
    /\ listener' = [listener EXCEPT !.pc = "dial"]
    /\ UNCHANGED <<vouchers, chainLogs>>
    /\ ListenerUnchanged

\* Start: ethclient.DialContext; on success ready is signalled and
\* WatchExecutions begins, on an error the loop sleeps
Dial(ok) ==
    /\ listener.pc = "dial"
    /\ listener' = [listener EXCEPT !.pc = IF ok THEN "replay" ELSE "dialSleep"]
    /\ UNCHANGED <<vouchers, chainLogs>>
    /\ ListenerUnchanged

\* Start: time.Sleep(delay), then the next dial
DialSleep ==
    /\ listener.pc = "dialSleep"
    /\ listener' = [listener EXCEPT !.pc = "dial"]
    /\ UNCHANGED <<vouchers, chainLogs>>
    /\ ListenerUnchanged

\* WatchExecutions: ReadPastExecutions; FilterLogs fails when its context is
\* cancelled and may fail otherwise; the error is logged
ReadPastExecutions(ok, skipped) ==
    /\ listener.pc = "replay"
    /\ ok => ~listener.cancelled
    /\ IF ok
       THEN /\ vouchers' = HandleOldLogs(vouchers, chainLogs, 1, skipped)
            /\ listener' =
                    [listener EXCEPT
                        !.pc = "subscribe",
                        !.seen = Seen(@, {chainLogs[k] :
                                            k \in DOMAIN chainLogs \ skipped}),
                        !.round = DOMAIN chainLogs,
                        !.missed = {}]
       ELSE /\ listener' = [listener EXCEPT !.pc = "replayFailed"]
            /\ UNCHANGED vouchers
    /\ UNCHANGED chainLogs
    /\ ListenerUnchanged

\* WatchExecutions: `continue` after the error of ReadPastExecutions, the
\* next round starts at once
ContinueAfterReadError ==
    /\ listener.pc = "replayFailed"
    /\ listener' = [listener EXCEPT !.pc = "replay"]
    /\ UNCHANGED <<vouchers, chainLogs>>
    /\ ListenerUnchanged

\* a subscription that delivers the logs of the query from its first block
SubscribeFromFirstLog(ok) ==
    /\ listener.pc = "subscribe"
    /\ ok => ~listener.cancelled
    /\ listener' = IF ok
                   THEN [listener EXCEPT !.pc = "waiting", !.next = 1]
                   ELSE [listener EXCEPT !.pc = "replay"]
    /\ UNCHANGED <<vouchers, chainLogs>>
    /\ ListenerUnchanged

\* WatchExecutions: SubscribeFilterLogs; the subscription delivers the logs
\* emitted after it; on an error the loop continues with the replay
SubscribeFilterLogs(ok) ==
    /\ listener.pc = "subscribe"
    /\ ok => ~listener.cancelled
    /\ listener' = IF ok
                   THEN [listener EXCEPT !.pc = "waiting",
                                         !.next = Len(chainLogs) + 1]
                   ELSE [listener EXCEPT !.pc = "replay"]
    /\ UNCHANGED <<vouchers, chainLogs>>
    /\ ListenerUnchanged

\* the event goroutine: case vLog := <-logs
ReceiveLog(ok) ==
    /\ listener.pc = "waiting"
    /\ listener.next <= Len(chainLogs)
    /\ vouchers' = HandleLog(vouchers, chainLogs[listener.next], ok)
    /\ listener' = [listener EXCEPT
                        !.next = @ + 1,
                        !.seen = IF ok THEN Seen(@, {chainLogs[listener.next]})
                                 ELSE @,
                        !.round = @ \cup {listener.next}]
    /\ UNCHANGED chainLogs
    /\ ListenerUnchanged

\* the event goroutine: case <-ctxEth.Done(); WatchExecutions returns
\* ctxEth.Err()
ContextDone ==
    /\ listener.pc = "waiting"
    /\ listener.cancelled
    /\ listener' = [listener EXCEPT !.pc = "returned", !.err = "canceled"]
    /\ UNCHANGED <<vouchers, chainLogs>>
    /\ ListenerUnchanged

\* the event goroutine: case err := <-sub.Err(); WatchExecutions returns
\* when the context is cancelled or err is nil, otherwise it sleeps and
\* connects again
SubscriptionError(err) ==
    /\ listener.pc = "waiting"
    /\ listener' = IF listener.cancelled
                   THEN [listener EXCEPT !.pc = "returned", !.err = "canceled"]
                   ELSE IF err # "none"
                   THEN [listener EXCEPT !.pc = "reconnectSleep"]
                   ELSE [listener EXCEPT !.pc = "returned", !.err = "none"]
    /\ UNCHANGED <<vouchers, chainLogs>>
    /\ ListenerUnchanged

\* WatchExecutions: time.Sleep(reconnectDelay), then the next round
ReconnectSleep ==
    /\ listener.pc = "reconnectSleep"
    /\ listener' = [listener EXCEPT !.pc = "replay"]
    /\ UNCHANGED <<vouchers, chainLogs>>
    /\ ListenerUnchanged

\* the context given to Start is cancelled
CancelListenerContext ==
    /\ listener.pc \notin {"idle", "returned"}
    /\ ~listener.cancelled
    /\ listener' = [listener EXCEPT !.cancelled = TRUE]
    /\ UNCHANGED <<vouchers, chainLogs>>
    /\ ListenerUnchanged

\* the synchronizer creates a voucher, or creates it again
SyncCreateVoucher(voucher) ==
    /\ CallCreateVoucher(voucher)
    /\ UNCHANGED execVars

\* the steps of the listener itself
ListenerNext ==
    \/ ListenerStart
    \/ \E ok \in BOOLEAN : Dial(ok)
    \/ DialSleep
    \/ \E ok \in BOOLEAN, skipped \in SUBSET (1..MaxLogs) :
            ReadPastExecutions(ok, skipped)
    \/ ContinueAfterReadError
    \/ \E ok \in BOOLEAN : SubscribeFilterLogs(ok)
    \/ \E ok \in BOOLEAN : ReceiveLog(ok)
    \/ ContextDone
    \/ \E err \in {"none", "sub"} : SubscriptionError(err)
    \/ ReconnectSleep

NextExec ==
    \/ ListenerNext
    \/ \E id \in EventIds : EmitOutputExecuted(id)
    \/ \E c \in SyncVouchers : SyncCreateVoucher(c)
    \/ CancelListenerContext

SpecExec == Init /\ [][NextExec]_vars

\* the listener's goroutines are scheduled and its sleeps end
SpecExecLive == SpecExec /\ WF_vars(ListenerNext)

\* the listener with a provider that works in the end: its goroutines are
\* scheduled and its sleeps end, a dial, a historical read and a subscription
\* that are tried again and again succeed at last, and a log the subscription
\* holds is received
SpecExecFair ==
    /\ SpecExec
    /\ WF_vars(ListenerStart \/ DialSleep \/ ContinueAfterReadError
                  \/ ReconnectSleep \/ ContextDone)
    /\ SF_vars(Dial(TRUE))
    /\ SF_vars(ReadPastExecutions(TRUE, {}))
    /\ SF_vars(SubscribeFilterLogs(TRUE))
    /\ WF_vars(ReceiveLog(TRUE))

\* --------------------------------------------- OnEvent, every event id

\* every 256-bit id, as four 64-bit words
AllEventIds == {<<a, b, c, d>> : a \in 0..MaxWord, b \in 0..MaxWord,
                                 c \in 0..MaxWord, d \in 0..MaxWord}

\* one event of any id is on the chain and has not been handled
InitDecode ==
    /\ inputs = << >>
    /\ inspects = << >>
    /\ state = newRollupsStateIdle
    /\ vouchers = {}
    /\ notices = {}
    /\ reports = {}
    /\ last = Call("init", "", "none", "none", -1)
    /\ finished = {}
    /\ rawInputs = << >>
    /\ rawOutputs = << >>
    /\ inputRefs = {}
    /\ outputRefs = {}
    /\ worker = StoppedWorker
    /\ handled = NothingHandled
    /\ chainLogs \in {<<id>> : id \in AllEventIds}
    /\ listener = IdleListener

\* OnEvent is called with the event; the call of UpdateExecuted is recorded
CallOnEvent ==
    /\ last.op = "init"
    /\ vouchers' = OnEvent(vouchers, chainLogs[1])
    /\ last' = [op |-> "UpdateExecuted",
                inputIndex |-> OnEventIndexes(chainLogs[1]).inputIndex,
                outputIndex |-> OnEventIndexes(chainLogs[1]).outputIndex,
                executedValue |-> TRUE, err |-> "none"]
    /\ UNCHANGED <<inputs, inspects, state, notices, reports, finished,
                   syncVars, execVars>>

NextDecode == CallOnEvent

SpecDecode == InitDecode /\ [][NextDecode]_vars

\* ------------------------------------------ HandleOutput, every payload

\* the bytes after the selector
BodyBytes == {"d1", "11"}
Bodies == UNION {[1..n -> BodyBytes] : n \in 0..MaxBody}

\* the voucher selector, another selector, and one that differs from the
\* voucher's in its last byte
Selectors == {VOUCHER_SELECTOR, OtherSelector, <<"ef", "61", "5e", "00">>}

\* a selector and a body, and every prefix of such a payload
AllOutputPayloads ==
    {SubSeq(sel \o body, 1, n) :
        <<sel, body, n>> \in {t \in Selectors \X Bodies \X (0..(4 + MaxBody)) :
                                 t[3] <= 4 + Len(t[2])}}

\* one raw input and one raw output of it are stored; nothing is synchronized
InitOutput ==
    /\ inputs = << >>
    /\ inspects = << >>
    /\ state = newRollupsStateIdle
    /\ vouchers = {}
    /\ notices = {}
    /\ reports = {}
    /\ last = Call("init", "", "none", "none", -1)
    /\ finished = {}
    /\ rawInputs \in {<<[id |-> 1, index |-> i, app |-> a, status |-> "NONE",
                          payload |-> "p1"]>> : i \in Keys, a \in RawApps}
    /\ rawOutputs \in {<<[id |-> 1, inputId |-> 1, index |-> ToString(o),
                           payload |-> p]>> : o \in Keys, p \in AllOutputPayloads}
    /\ inputRefs = {}
    /\ outputRefs = {}
    /\ worker = StoppedWorker
    /\ handled = NothingHandled
    /\ chainLogs = << >>
    /\ listener = IdleListener

\* HandleOutput is called with the raw output
CallHandleOutput ==
    LET res == HandleOutput([vouchers |-> vouchers, notices |-> notices,
                             refs |-> outputRefs],
                            rawInputs, rawOutputs[1], "none")
    IN  /\ last.op = "init"
        /\ vouchers' = res.db.vouchers
        /\ notices' = res.db.notices
        /\ outputRefs' = res.db.refs
        /\ last' = Call("HandleOutput", "", res.err, "none", -1)
        /\ UNCHANGED <<inputs, inspects, state, reports, finished, rawInputs,
                       rawOutputs, inputRefs, worker, handled, execVars>>

NextOutput == CallHandleOutput

SpecOutput == InitOutput /\ [][NextOutput]_vars

\* the texts the index column of a raw output may hold: decimal numbers, and
\* texts that are no number
IndexTexts == {ToString(o) : o \in Keys} \cup {"", "x"}

\* a raw output with any index text and any payload, of the stored raw input
\* (id 1) or of an input the node database does not hold (id 2)
InitOutputRow ==
    /\ inputs = << >>
    /\ inspects = << >>
    /\ state = newRollupsStateIdle
    /\ vouchers = {}
    /\ notices = {}
    /\ reports = {}
    /\ last = Call("init", "", "none", "none", -1)
    /\ finished = {}
    /\ rawInputs \in {<<[id |-> 1, index |-> i, app |-> a, status |-> "NONE",
                          payload |-> "p1"]>> : i \in Keys, a \in RawApps}
    /\ rawOutputs \in {<<[id |-> 1, inputId |-> n, index |-> t,
                           payload |-> p]>> :
                            n \in {1, 2}, t \in IndexTexts,
                            p \in AllOutputPayloads}
    /\ inputRefs = {}
    /\ outputRefs = {}
    /\ worker = StoppedWorker
    /\ handled = NothingHandled
    /\ chainLogs = << >>
    /\ listener = IdleListener

SpecOutputRow == InitOutputRow /\ [][NextOutput]_vars

\* ---------------------------------------------- queries: filters and pages

\* a nil pointer, a pointer to v, and the value a pointer points to
Nil == {}
Ptr(v) == {v}
Deref(p) == CHOOSE v \in p : TRUE

INDEX_FIELD == "Index"
INPUT_INDEX == "InputIndex"

\* the operators a ConvenienceFilter carries: f.ops maps those that are set
\* (non-nil) to their values
FilterOps == {"Eq", "Ne", "Gt", "Lt"}

IsSet(f, op) == op \in DOMAIN f.ops

Clause(column, cmp, value) ==
    [err |-> "none", column |-> column, cmp |-> cmp, value |-> value]

ClauseError(err) == [err |-> err, column |-> "", cmp |-> "", value |-> ""]

\* the loop body of transformToInputQuery: the clause of one filter
InputClause(f) ==
    IF f.field = INDEX_FIELD
    THEN IF IsSet(f, "Eq") THEN Clause("input_index", "=", f.ops["Eq"])
         ELSE IF IsSet(f, "Gt") THEN Clause("input_index", ">", f.ops["Gt"])
         ELSE IF IsSet(f, "Lt") THEN Clause("input_index", "<", f.ops["Lt"])
         ELSE ClauseError("operation not implemented")
    ELSE IF f.field = "Status"
    THEN IF IsSet(f, "Ne") THEN Clause("status", "<>", f.ops["Ne"])
         ELSE ClauseError("operation not implemented")
    ELSE IF f.field = "MsgSender"
    THEN IF IsSet(f, "Eq") THEN Clause("msg_sender", "=", f.ops["Eq"])
         ELSE ClauseError("operation not implemented")
    ELSE ClauseError("unexpected field")

\* the loop body of transformToNoticeQuery
NoticeClause(f) ==
    IF f.field = INPUT_INDEX
    THEN IF IsSet(f, "Eq") THEN Clause("input_index", "=", f.ops["Eq"])
         ELSE ClauseError("operation not implemented")
    ELSE ClauseError("unexpected field")

\* the loop body of transformToReportQuery
ReportClause(f) ==
    IF f.field = "OutputIndex"
    THEN IF IsSet(f, "Eq") THEN Clause("output_index", "=", f.ops["Eq"])
         ELSE ClauseError("operation not implemented")
    ELSE IF f.field = INPUT_INDEX
    THEN IF IsSet(f, "Eq") THEN Clause("input_index", "=", f.ops["Eq"])
         ELSE ClauseError("operation not implemented")
    ELSE ClauseError("unexpected field")

\* the loop of a transform: the error of the first filter that has one, else
\* the clauses in the order of the filters
Transform(clauses) ==
    LET bad == {k \in DOMAIN clauses : clauses[k].err # "none"}
    IN  IF bad # {} THEN [err |-> clauses[Min(bad)].err, where |-> << >>]
        ELSE [err |-> "none", where |-> clauses]

transformToInputQuery(filter) ==
    Transform([k \in DOMAIN filter |-> InputClause(filter[k])])

transformToNoticeQuery(filter) ==
    Transform([k \in DOMAIN filter |-> NoticeClause(filter[k])])

transformToReportQuery(filter) ==
    Transform([k \in DOMAIN filter |-> ReportClause(filter[k])])

\* the column of a row
Column(row, column) ==
    IF column = "input_index"
    THEN (IF "index" \in DOMAIN row THEN row.index ELSE row.inputIndex)
    ELSE IF column = "output_index" THEN row.outputIndex
    ELSE IF column = "status" THEN row.status
    ELSE row.msgSender

\* the value of a filter is a text (*string); compared with an integer
\* column it is read as a decimal number
DecimalText == <<"0", "1", "2", "3", "4", "5", "6", "7", "8", "9">>
Atoi(text) == (CHOOSE n \in DOMAIN DecimalText : DecimalText[n] = text) - 1

Argument(clause) ==
    IF clause.column \in {"input_index", "output_index"}
    THEN Atoi(clause.value) ELSE clause.value

\* one comparison of a WHERE
Satisfies(row, clause) ==
    IF clause.cmp = "=" THEN Column(row, clause.column) = Argument(clause)
    ELSE IF clause.cmp = "<>" THEN Column(row, clause.column) # Argument(clause)
    ELSE IF clause.cmp = ">" THEN Column(row, clause.column) > Argument(clause)
    ELSE Column(row, clause.column) < Argument(clause)

\* a WHERE whose comparisons are joined with "or"
MatchesAny(row, where) ==
    \E k \in DOMAIN where : Satisfies(row, where[k])

\* WHERE <clauses joined with " and ">; no WHERE when there is no filter
Matches(row, where) ==
    \A k \in DOMAIN where : Satisfies(row, where[k])

\* InputRepository.Count: SELECT count(*) FROM convenience_inputs <where>
Count(rows, filter) ==
    LET q == transformToInputQuery(filter)
    IN  IF q.err # "none" THEN [err |-> q.err, count |-> 0]
        ELSE [err |-> "none",
              count |-> Cardinality({k \in DOMAIN rows : Matches(rows[k], q.where)})]

\* NoticeRepository.Count
NoticeCount(rows, filter) ==
    LET q == transformToNoticeQuery(filter)
    IN  IF q.err # "none" THEN [err |-> q.err, count |-> 0]
        ELSE [err |-> "none",
              count |-> Cardinality({r \in rows : Matches(r, q.where)})]

\* ReportRepository.Count
ReportCount(rows, filter) ==
    LET q == transformToReportQuery(filter)
    IN  IF q.err # "none" THEN [err |-> q.err, count |-> 0]
        ELSE [err |-> "none",
              count |-> Cardinality({r \in rows : Matches(r, q.where)})]

\* a cursor is the text of a row offset
EncodeCursor(offset) == <<"cursor", offset>>
DecodeCursor(cursor) == cursor[2]

NoPage == [err |-> "none", offset |-> 0, limit |-> 0]

\* commons.ComputePage: the offset and the limit of a page
ComputePage(first, lastp, after, before, total) ==
    LET forward == first # Nil \/ after # Nil
        backward == lastp # Nil \/ before # Nil
        count == IF first # Nil THEN Deref(first)
                 ELSE IF lastp # Nil THEN Deref(lastp) ELSE total
        end == IF before # Nil THEN DecodeCursor(Deref(before)) ELSE total
        start == IF end > count THEN end - count ELSE 0
    IN  IF forward /\ backward THEN [NoPage EXCEPT !.err = "mixed pagination"]
        ELSE IF backward
        THEN [err |-> "none", offset |-> start, limit |-> end - start]
        ELSE [err |-> "none",
              offset |-> IF after # Nil THEN DecodeCursor(Deref(after)) + 1
                         ELSE 0,
              limit |-> count]

\* the positions ks of the table by ascending input_index
RECURSIVE OrderByInputIndex(_, _)
OrderByInputIndex(rows, ks) ==
    IF ks = {} THEN << >>
    ELSE LET k == Min({j \in ks : \A i \in ks : rows[j].index <= rows[i].index})
         IN  <<rows[k]>> \o OrderByInputIndex(rows, ks \ {k})

\* LIMIT $limit OFFSET $offset
LimitOffset(ordered, limit, offset) ==
    SubSeq(ordered, offset + 1,
           IF offset + limit < Len(ordered) THEN offset + limit
           ELSE Len(ordered))

NoPageResult == [err |-> "none", rows |-> << >>, total |-> 0, offset |-> 0]

\* a FindAll without ORDER BY
FindAllUnordered(rows, first, lastp, after, before, filter) ==
    LET total == Count(rows, filter)
        q == transformToInputQuery(filter)
        page == ComputePage(first, lastp, after, before, total.count)
        ks == {k \in DOMAIN rows : Matches(rows[k], q.where)}
    IN  IF total.err # "none" THEN [NoPageResult EXCEPT !.err = total.err]
        ELSE IF page.err # "none" THEN [NoPageResult EXCEPT !.err = page.err]
        ELSE [err |-> "none",
              rows |-> LimitOffset([n \in 1..Cardinality(ks) |->
                                      rows[Ascending(ks)[n]]],
                                   page.limit, page.offset),
              total |-> total.count, offset |-> page.offset]

\* InputRepository.FindAll: total = Count(filter); SELECT ... <where>
\* ORDER BY input_index ASC LIMIT $limit OFFSET $offset
FindAll(rows, first, lastp, after, before, filter) ==
    LET total == Count(rows, filter)
        q == transformToInputQuery(filter)
        page == ComputePage(first, lastp, after, before, total.count)
        ks == {k \in DOMAIN rows : Matches(rows[k], q.where)}
    IN  IF total.err # "none" THEN [NoPageResult EXCEPT !.err = total.err]
        ELSE IF q.err # "none" THEN [NoPageResult EXCEPT !.err = q.err]
        ELSE IF page.err # "none" THEN [NoPageResult EXCEPT !.err = page.err]
        ELSE [err |-> "none",
              rows |-> LimitOffset(OrderByInputIndex(rows, ks),
                                   page.limit, page.offset),
              total |-> total.count, offset |-> page.offset]

\* ------------------------------------------------ FindAll, every page

\* the row of input index i: even indexes are accepted, odd ones unprocessed;
\* the first two indexes come from one sender
PageRow(i) ==
    [index |-> i, app |-> ZeroAddress,
     status |-> IF i % 2 = 0 THEN Accepted ELSE Unprocessed,
     exception |-> NoPayload, payload |-> "p1",
     msgSender |-> IF i < 2 THEN "0xs1" ELSE "0xs2"]

\* tables of n rows with the indexes 0..n-1, inserted in ascending or in
\* descending order of the index
PageTables ==
    UNION {{[k \in 1..n |-> PageRow(k - 1)], [k \in 1..n |-> PageRow(n - k)]} :
             n \in 0..MaxRows}

\* first and last: nil or a number of rows
PageSizes == {Nil} \cup {Ptr(n) : n \in 0..MaxRows}

\* after and before: nil or the cursor of a row offset
Cursors == {Nil} \cup {Ptr(EncodeCursor(c)) : c \in 0..(MaxRows - 1)}

Filter(field, ops) == [field |-> field, ops |-> ops]

Op(op, value) == [o \in {op} |-> value]

\* no filter, the unprocessed inputs, the inputs after the first
PageFilters ==
    {<< >>,
     <<Filter("Status", Op("Ne", Accepted))>>,
     <<Filter(INDEX_FIELD, Op("Gt", "0"))>>}

Query(first, lastp, after, before, filter) ==
    [op |-> "query", first |-> first, lastp |-> lastp, after |-> after,
     before |-> before, filter |-> filter]

\* some table is stored and a query is about to be made
InitQuery(tables, pages, filters, outputs) ==
    /\ inputs \in tables
    /\ inspects = << >>
    /\ state = newRollupsStateIdle
    /\ vouchers = {}
    /\ notices = outputs
    /\ reports = outputs
    /\ last \in {Query(pg[1], pg[2], pg[3], pg[4], q) :
                    <<pg, q>> \in pages \X filters}
    /\ finished = {}
    /\ rawInputs = << >>
    /\ rawOutputs = << >>
    /\ inputRefs = {}
    /\ outputRefs = {}
    /\ worker = StoppedWorker
    /\ handled = NothingHandled
    /\ chainLogs = << >>
    /\ listener = IdleListener

InitPage ==
    InitQuery(PageTables, PageSizes \X PageSizes \X Cursors \X Cursors,
              PageFilters, {})

QueryUnchanged ==
    UNCHANGED <<inputs, inspects, state, vouchers, notices, reports, finished,
                syncVars, execVars>>

Answer(op, res) ==
    [op |-> op, first |-> last.first, lastp |-> last.lastp,
     after |-> last.after, before |-> last.before, filter |-> last.filter,
     err |-> res.err, rows |-> res.rows, total |-> res.total,
     offset |-> res.offset]

\* InputRepository.FindAll is called with the query
CallFindAll ==
    /\ last.op = "query"
    /\ last' = Answer("FindAll",
                      FindAll(inputs, last.first, last.lastp, last.after,
                              last.before, last.filter))
    /\ QueryUnchanged

\* InputRepository.Count is called with the filter of the query
CallCount ==
    /\ last.op = "query"
    /\ last' = Answer("Count",
                      [NoPageResult EXCEPT
                          !.err = Count(inputs, last.filter).err,
                          !.total = Count(inputs, last.filter).count])
    /\ QueryUnchanged

NextPage == CallFindAll \/ CallCount

SpecPage == InitPage /\ [][NextPage]_vars

\* ------------------------------------------------ queries, every filter

\* the filters of one field: an operator the field implements, one it does
\* not, and two operators set at once
FiltersOfField ==
    {Filter(INDEX_FIELD, Op("Eq", "1")), Filter(INDEX_FIELD, Op("Gt", "0")),
     Filter(INDEX_FIELD, Op("Lt", "2")), Filter(INDEX_FIELD, Op("Ne", "1")),
     Filter(INDEX_FIELD, [o \in {"Eq", "Gt"} |-> "0"]),
     Filter("Status", Op("Ne", Accepted)), Filter("Status", Op("Eq", Accepted)),
     Filter("Status", [o \in {"Ne", "Eq"} |-> Accepted]),
     Filter("MsgSender", Op("Eq", "0xs1")), Filter("MsgSender", Op("Ne", "0xs1")),
     Filter(INPUT_INDEX, Op("Eq", "0")), Filter(INPUT_INDEX, Op("Gt", "0")),
     Filter(INPUT_INDEX, [o \in {"Eq", "Gt"} |-> "0"]),
     Filter("OutputIndex", Op("Eq", "1")), Filter("OutputIndex", Op("Lt", "1")),
     Filter("Foo", Op("Eq", "0"))}

\* filter lists of at most MaxFilters filters
FilterLists == UNION {[1..n -> FiltersOfField] : n \in 0..MaxFilters}

\* the stored notices and reports: one of every key
StoredOutputs ==
    [inputIndex : Keys, outputIndex : Keys, payload : {"1122"},
     app : {ZeroAddress}]

\* a page that takes every row
WholePage == {<<Ptr(MaxRows), Nil, Nil, Nil>>}

InitFilter == InitQuery(PageTables, WholePage, FilterLists, StoredOutputs)

\* NoticeRepository.Count is called with the filter of the query
CallNoticeCount ==
    /\ last.op = "query"
    /\ last' = Answer("NoticeCount",
                      [NoPageResult EXCEPT
                          !.err = NoticeCount(notices, last.filter).err,
                          !.total = NoticeCount(notices, last.filter).count])
    /\ QueryUnchanged

\* ReportRepository.Count is called with the filter of the query
CallReportCount ==
    /\ last.op = "query"
    /\ last' = Answer("ReportCount",
                      [NoPageResult EXCEPT
                          !.err = ReportCount(reports, last.filter).err,
                          !.total = ReportCount(reports, last.filter).count])
    /\ QueryUnchanged

NextFilter == CallFindAll \/ CallCount \/ CallNoticeCount \/ CallReportCount

SpecFilter == InitFilter /\ [][NextFilter]_vars

\* --------------------------------- convenience service, two workers

\* the two workers that call the convenience service at the same time
Callers == {1, 2}

\* the upserts of ConvenienceService that inputs, vouchers and notices go
\* through
UpsertKinds == {"CreateInput", "CreateVoucher", "CreateNotice"}

\* what a worker hands in: both workers use the natural key (0, "0xf3") of an
\* input or (0, 0) of an output, with a status or payload of their own
Candidate(kind, value) ==
    IF kind = "CreateInput"
    THEN [index |-> 0, app |-> "0xf3", status |-> value,
          exception |-> NoPayload, payload |-> "p1"]
    ELSE IF kind = "CreateVoucher"
    THEN [inputIndex |-> 0, outputIndex |-> 0, destination |-> "d1",
          payload |-> value, executed |-> FALSE, app |-> ZeroAddress]
    ELSE [inputIndex |-> 0, outputIndex |-> 0, payload |-> value,
          app |-> ZeroAddress]

CandidateValues(kind) ==
    IF kind = "CreateInput" THEN {Unprocessed, Accepted} ELSE {"", "1122"}

\* a call that has not run its first statement
NewCall(kind, value) ==
    [pc |-> "find", arg |-> Candidate(kind, value), err |-> "none"]

\* the table before the calls: empty, or holding the row of the key
StoredBefore(kind) ==
    IF kind = "CreateInput"
    THEN {<< >>, <<Candidate(kind, Unprocessed)>>}
    ELSE {{}, {Candidate(kind, "")}}

InitRace ==
    \E kind \in UpsertKinds :
        /\ last \in [op : {kind},
                     calls : [Callers -> {NewCall(kind, v) :
                                            v \in CandidateValues(kind)}]]
        /\ inputs \in (IF kind = "CreateInput" THEN StoredBefore(kind)
                       ELSE {<< >>})
        /\ vouchers \in (IF kind = "CreateVoucher" THEN StoredBefore(kind)
                         ELSE {{}})
        /\ notices \in (IF kind = "CreateNotice" THEN StoredBefore(kind)
                        ELSE {{}})
        /\ inspects = << >>
        /\ state = newRollupsStateIdle
        /\ reports = {}
        /\ finished = {}
        /\ rawInputs = << >>
        /\ rawOutputs = << >>
        /\ inputRefs = {}
        /\ outputRefs = {}
        /\ worker = StoppedWorker
        /\ handled = NothingHandled
        /\ chainLogs = << >>
        /\ listener = IdleListener

\* worker w moves to pc, with the error its statement returned
Moved(w, pc, err) ==
    last' = [last EXCEPT !.calls[w].pc = pc, !.calls[w].err = err]

\* the first statement of CreateInput / CreateVoucher / CreateNotice: the
\* lookup by natural key, and the branch on what it returned
ServiceFind(w) ==
    LET c == last.calls[w]
        found ==
            IF last.op = "CreateInput"
            THEN FindInputByAppContractAndIndex(inputs, c.arg.index,
                                                c.arg.app) # NoRow
            ELSE IF last.op = "CreateVoucher"
            THEN VoucherFind(vouchers, c.arg.inputIndex, c.arg.outputIndex)
            ELSE NoticeFind(notices, c.arg.inputIndex, c.arg.outputIndex)
    IN  /\ c.pc = "find"
        /\ Moved(w, IF found THEN "update" ELSE "create", "none")
        /\ UNCHANGED <<inputs, inspects, state, vouchers, notices, reports,
                       finished, syncVars, execVars>>

\* the branch that found a row: Update / UpdateVoucher
ServiceUpdate(w) ==
    LET c == last.calls[w]
    IN  /\ c.pc = "update"
        /\ inputs' = IF last.op = "CreateInput" THEN Update(inputs, c.arg)
                     ELSE inputs
        /\ vouchers' = IF last.op = "CreateVoucher"
                       THEN VoucherUpdate(vouchers, c.arg).rows ELSE vouchers
        /\ notices' = IF last.op = "CreateNotice"
                      THEN NoticeUpdate(notices, c.arg).rows ELSE notices
        /\ Moved(w, "done", "none")
        /\ UNCHANGED <<inspects, state, reports, finished, syncVars, execVars>>

\* the branch that found none, for an output: the INSERT of CreateVoucher or
\* of NoticeRepository.Create
ServiceCreateOutput(w) ==
    LET c == last.calls[w]
        res == IF last.op = "CreateVoucher" THEN VoucherCreate(vouchers, c.arg)
               ELSE NoticeCreate(notices, c.arg)
    IN  /\ c.pc = "create"
        /\ last.op # "CreateInput"
        /\ vouchers' = IF last.op = "CreateVoucher" THEN res.rows ELSE vouchers
        /\ notices' = IF last.op = "CreateNotice" THEN res.rows ELSE notices
        /\ Moved(w, "done", res.err)
        /\ UNCHANGED <<inputs, inspects, state, reports, finished, syncVars,
                       execVars>>

\* the branch that found none, for an input: InputRepository.Create reads
\* FindByIndex first and returns the stored row when there is one
CreateFindByIndex(w) ==
    LET c == last.calls[w]
    IN  /\ c.pc = "create"
        /\ last.op = "CreateInput"
        /\ Moved(w, IF FindByIndex(inputs, c.arg.index) # NoRow THEN "done"
                    ELSE "insert", "none")
        /\ UNCHANGED <<inputs, inspects, state, vouchers, notices, reports,
                       finished, syncVars, execVars>>

\* InputRepository.Create found no row of the index: rawCreate
CreateRawCreate(w) ==
    LET c == last.calls[w]
    IN  /\ c.pc = "insert"
        /\ inputs' = rawCreate(inputs, c.arg)
        /\ Moved(w, "done", "none")
        /\ UNCHANGED <<inspects, state, vouchers, notices, reports, finished,
                       syncVars, execVars>>

\* the statements of the two calls, in any order
NextRace ==
    \E w \in Callers :
        \/ ServiceFind(w)
        \/ ServiceUpdate(w)
        \/ ServiceCreateOutput(w)
        \/ CreateFindByIndex(w)
        \/ CreateRawCreate(w)

SpecRace == InitRace /\ [][NextRace]_vars

\* ------------------------------- CreateInput over inputs of several apps

\* a stored input of an application: not processed yet, or ended by an
\* exception
StoredInputs ==
    {[index |-> i, app |-> a, status |-> ended[1], exception |-> ended[2],
      payload |-> "p1"] :
        i \in Indexes, a \in Apps,
        ended \in {<<Unprocessed, NoPayload>>, <<Exception, "e1">>}}

\* convenience_inputs with at most one row for an (index, app contract); the
\* synchronizer stores inputs of several applications, and two of them may
\* carry the same index
KeyedTables ==
    {<< >>} \cup {<<r>> : r \in StoredInputs}
            \cup {rows \in StoredInputs \X StoredInputs :
                    <<rows[1].index, rows[1].app>> #
                        <<rows[2].index, rows[2].app>>}

InitKeyed ==
    /\ inputs \in KeyedTables
    /\ inspects = << >>
    /\ state = newRollupsStateIdle
    /\ vouchers = {}
    /\ notices = {}
    /\ reports = {}
    /\ last = Call("init", "", "none", "none", -1)
    /\ finished = {}
    /\ rawInputs = << >>
    /\ rawOutputs = << >>
    /\ inputRefs = {}
    /\ outputRefs = {}
    /\ worker = StoppedWorker
    /\ handled = NothingHandled
    /\ chainLogs = << >>
    /\ listener = IdleListener

\* the convenience service is handed inputs of any key and status
NextKeyed ==
    \E i \in Indexes, a \in Apps, s \in CompletionStatus, p \in InputPayloads :
        CallCreateInput(i, a, s, p)

SpecKeyed == InitKeyed /\ [][NextKeyed]_vars

\* ------------------------------------ the outputs of an advance input

\* the store holds an unprocessed input for every index, as AddAdvanceInput
\* left them; nothing has been dispatched
InitAdvances ==
    /\ inputs = [k \in 1..(MaxIndex + 1) |->
                    [index |-> k - 1, app |-> ZeroAddress,
                     status |-> Unprocessed, exception |-> NoPayload,
                     payload |-> "p1"]]
    /\ inspects = << >>
    /\ state = newRollupsStateIdle
    /\ vouchers = {}
    /\ notices = {}
    /\ reports = {}
    /\ last = Call("init", "", "none", "none", -1)
    /\ finished = {}
    /\ rawInputs = << >>
    /\ rawOutputs = << >>
    /\ inputRefs = {}
    /\ outputRefs = {}
    /\ worker = StoppedWorker
    /\ handled = NothingHandled
    /\ chainLogs = << >>
    /\ listener = IdleListener

\* the application works through the inputs and adds up to MaxAdds outputs
\* of a kind to each
NextAdvances ==
    \/ \E accepted \in BOOLEAN, finishOk \in BOOLEAN, findOk \in BOOLEAN :
            FinishAndGetNext(accepted, finishOk, findOk) /\ Tracked
    \/ \E d \in Destinations, p \in OutputPayloads :
            AddVoucherWithin(MaxAdds, d, p)
    \/ \E p \in OutputPayloads : AddNoticeWithin(MaxAdds, p)
    \/ \E p \in OutputPayloads : AddReportWithin(MaxAdds, p)

SpecAdvances == InitAdvances /\ [][NextAdvances]_vars

\* ---------------------------------------------------------------- claims

\* the stored status of an input index, "none" when no row has it
StoredStatus(rows, index) ==
    IF RowsWithIndex(rows, index) = {} THEN "none"
    ELSE FindByIndex(rows, index).status

\* the input the state machine is working on
InFlight(st) == IF st.kind = "Idle" THEN {} ELSE {<<st.kind, st.index>>}

\* the step is a call of op (every call records itself in last)
IsCall(op) == last'.op = op

\* C1: the state is one of Idle, Advance(i), Inspect(i) with i an input that
\* exists, and another input becomes the in-flight one only in a
\* FinishAndGetNext call that returns no error and has finished the input that
\* was in flight before (its status is no longer Unprocessed).
C1_SingleInFlight ==
    /\ [](/\ state.kind \in {"Idle", "Advance", "Inspect"}
          /\ Cardinality(InFlight(state)) <= 1
          /\ state.kind = "Idle" => state = newRollupsStateIdle
          /\ state.kind = "Advance" => RowsWithIndex(inputs, state.index) # {}
          /\ state.kind = "Inspect" => state.index \in DOMAIN inspects)
    /\ [][(InFlight(state') # {} /\ InFlight(state') # InFlight(state)) =>
            /\ IsCall("FinishAndGetNext")
            /\ last'.err = "none"
            /\ state.kind = "Advance" =>
                    StoredStatus(inputs', state.index) # Unprocessed
            /\ state.kind = "Inspect" =>
                    inspects'[state.index].status # Unprocessed]_vars

\* C1 witness: an inspect input was dispatched by the call that finished an
\* advance input.
C1_Witness ==
    /\ last.op = "FinishAndGetNext"
    /\ last.kind = "inspect"
    /\ state.kind = "Inspect"
    /\ \E k \in DOMAIN inputs : inputs[k].status \in {Accepted, Rejected}

\* C2: in Idle or Inspect, AddVoucher and AddNotice return an error, write no
\* voucher or notice row and leave the state as it is; a call that returns no
\* error was made in Advance.
C2_OutputsOnlyInAdvance ==
    [][(IsCall("AddVoucher") \/ IsCall("AddNotice")) =>
          /\ state.kind \in {"Idle", "Inspect"} =>
                /\ last'.err # "none"
                /\ vouchers' = vouchers
                /\ notices' = notices
                /\ state' = state
          /\ last'.err = "none" => state.kind = "Advance"]_vars

\* C2 witness: AddVoucher was refused while an inspect input is in flight.
C2_Witness ==
    /\ last.op = "AddVoucher"
    /\ last.err = "state"
    /\ state.kind = "Inspect"

C4_TerminalStatusKept ==
    [][\A k \in DOMAIN inputs :
          inputs[k].status # Unprocessed =>
              inputs'[k].status = inputs[k].status]_vars

\* C5: a FinishAndGetNext that returns no error dispatches an inspect input
\* whenever an inspect input other than the one it finishes is Unprocessed,
\* whatever advance inputs are Unprocessed; when it dispatches an advance
\* input, no inspect input is Unprocessed.
C5_InspectFirst ==
    [][(IsCall("FinishAndGetNext") /\ last'.err = "none") =>
          /\ (\E k \in DOMAIN inspects :
                /\ inspects[k].status = Unprocessed
                /\ <<"Inspect", k>> \notin InFlight(state))
                    => last'.kind = "inspect"
          /\ last'.kind = "advance" =>
                \A k \in DOMAIN inspects' : inspects'[k].status # Unprocessed
         ]_vars

\* C5 witness: an inspect input was dispatched while an advance input is
\* Unprocessed.
C5_Witness ==
    /\ last.op = "FinishAndGetNext"
    /\ last.kind = "inspect"
    /\ \E k \in DOMAIN inputs : inputs[k].status = Unprocessed

\* C6: the advance input FinishAndGetNext dispatches is Unprocessed and no
\* Unprocessed advance input of the store has a lower index.
C6_LowestIndexFirst ==
    (last.op = "FinishAndGetNext" /\ last.kind = "advance") =>
        /\ StoredStatus(inputs, last.index) = Unprocessed
        /\ state = newRollupsStateAdvance(FindByIndex(inputs, last.index))
        /\ \A k \in DOMAIN inputs :
              inputs[k].status = Unprocessed => inputs[k].index >= last.index

\* C6 witness: input 0 was stored after input 1 and is dispatched before it.
C6_Witness ==
    /\ last.op = "FinishAndGetNext"
    /\ last.kind = "advance"
    /\ last.index = 0
    /\ Len(inputs) = 2
    /\ inputs[1].index = 1
    /\ inputs[1].status = Unprocessed

Growth(rows, c) ==
    IF KeyRows(rows, c.inputIndex, c.outputIndex) = {} THEN 1 ELSE 0

\* C10 (as claimed): every CreateNotice(c) and every CreateVoucher(c) returns
\* no error and leaves exactly one row at the key of c, holding the field
\* values of c, whatever candidate was stored at the key before; the table
\* gains a row only when the key was absent.
C10_UpsertKeepsLastCandidate ==
    [][/\ \A c \in NoticeCandidates : CallCreateNotice(c) =>
            /\ last'.err = "none"
            /\ KeyRows(notices', c.inputIndex, c.outputIndex) = {c}
            /\ Cardinality(notices') = Cardinality(notices) + Growth(notices, c)
       /\ \A c \in VoucherCandidates : CallCreateVoucher(c) =>
            /\ last'.err = "none"
            /\ KeyRows(vouchers', c.inputIndex, c.outputIndex) = {c}
            /\ Cardinality(vouchers') = Cardinality(vouchers) + Growth(vouchers, c)
      ]_vars

\* C11 (as claimed): every CreateReport(c) leaves exactly one report row at
\* the key of c, and that row holds the payload of c, whatever report was
\* stored at the key before.
C11_ReportUpsertKeepsLastPayload ==
    [][\A c \in ReportCandidates : CallCreateReport(c) =>
            /\ Cardinality(KeyRows(reports', c.inputIndex, c.outputIndex)) = 1
            /\ \A r \in KeyRows(reports', c.inputIndex, c.outputIndex) :
                    r.payload = c.payload]_vars

\* the stored inputs of an index and an app contract
RowsOfApp(rows, index, app) ==
    {k \in DOMAIN rows : rows[k].index = index /\ rows[k].app = app}

\* C12 (as claimed): after every CreateInput of an input with index i and app
\* contract a, exactly one input row with index i and app contract a is
\* stored: calls with the same index and app contract leave one row, a call
\* with the same index and another app contract adds a row of its own.
C12_InputIdentityByIndexAndApp ==
    [][\A i \in Indexes, a \in Apps, st \in DeliveredStatuses,
         p \in InputPayloads :
            CallCreateInput(i, a, st, p) =>
                Cardinality(RowsOfApp(inputs', i, a)) = 1]_vars

\* the input AddAdvanceInput builds for an index and a payload
AdvanceInputOf(index, payload) ==
    [index |-> index, app |-> ZeroAddress, status |-> Unprocessed,
     exception |-> NoPayload, payload |-> payload]

\* C13: an AddAdvanceInput (InputRepository.Create) of an index that is stored
\* returns no error, gets the stored input back and leaves the table as it
\* was, so no index is ever stored in more than one row.
C13_CreateStoredIndexInsertsNothing ==
    /\ [](\A i \in Indexes : Cardinality(RowsWithIndex(inputs, i)) <= 1)
    /\ [][\A i \in Indexes, p \in InputPayloads :
            (AddAdvanceInput(i, p, TRUE) /\ RowsWithIndex(inputs, i) # {}) =>
                /\ last'.err = "none"
                /\ inputs' = inputs
                /\ CreateResult(inputs, AdvanceInputOf(i, p))
                        = FindByIndex(inputs', i)]_vars

\* C13 witness: an AddAdvanceInput returned without error while every stored
\* input is finished, so it delivered a stored index and changed no row.
C13_Witness ==
    /\ last.op = "AddAdvanceInput"
    /\ last.err = "none"
    /\ Len(inputs) = 2
    /\ \A k \in DOMAIN inputs : inputs[k].status \in {Accepted, Exception}

\* the raw ids that have a raw input reference
ReferencedRawIds == {r.rawId : r \in inputRefs}

\* the batch the next SyncInputCreation reads
NextInputBatch == FindAllInputsByFilter(rawInputs, worker.latestRawID, LIMIT)

StrictlyIncreasing(seq) ==
    \A j, k \in DOMAIN seq : j < k => seq[j] < seq[k]

\* C14: a SyncInputCreation in which nothing fails, run over a batch of raw
\* rows that all have a raw input reference already (the rows at and after a
\* mark that was set back), returns no error and leaves the input table and
\* the raw input reference table with the rows they had.
C14_ReprocessingChangesNothing ==
    [][(/\ SelectSyncInputCreation("ok", 1)
        /\ ~worker.cancelled
        /\ NextInputBatch # << >>
        /\ \A k \in DOMAIN NextInputBatch :
                rawInputs[NextInputBatch[k]].id \in ReferencedRawIds) =>
            /\ worker'.pc = "status"
            /\ worker'.err = "none"
            /\ inputs' = inputs
            /\ inputRefs' = inputRefs]_vars

\* C14 witness: a run that started at mark 2 handled raw row 2 only, so row 2
\* had its reference before the run; the run got past SyncInputCreation and
\* each raw row still has one reference.
C14_Witness ==
    /\ worker.pc = "status"
    /\ handled.inputs = <<2>>
    /\ Len(rawInputs) = 2
    /\ ReferencedRawIds = {1, 2}
    /\ Cardinality(inputRefs) = 2

\* C15: the raw ids HandleInput gets during a run are strictly increasing, so
\* are those HandleOutput gets; while WatchNewInputs runs neither in-memory
\* mark decreases, whether the iteration fails or not, and the marks read
\* from the reference tables never decrease.
C15_AscendingRawIds ==
    /\ [](StrictlyIncreasing(handled.inputs)
          /\ StrictlyIncreasing(handled.outputs))
    /\ [][/\ worker.pc \notin {"stopped", "returned"} =>
                /\ worker'.latestRawID >= worker.latestRawID
                /\ worker'.latestOutputRawId >= worker.latestOutputRawId
           /\ GetLatestRawId(inputRefs') >= GetLatestRawId(inputRefs)
           /\ GetLatestRawId(outputRefs') >= GetLatestRawId(outputRefs)]_vars

\* C15 witness: one run handled raw rows 1, 2 and 3 in two batches.
C15_Witness ==
    /\ handled.inputs = <<1, 2, 3>>
    /\ worker.latestRawID = 4
    /\ worker.pc = "status"

\* C16: when SyncInputCreation returns an error, the input table and the raw
\* input reference table are as they were before the batch, and so is the
\* mark read from the reference table.
C16_FailedBatchRolledBack ==
    [][(/\ worker.pc = "select"
        /\ ~worker.cancelled
        /\ worker'.pc = "returned") =>
            /\ inputs' = inputs
            /\ inputRefs' = inputRefs
            /\ GetLatestRawId(inputRefs') = GetLatestRawId(inputRefs)]_vars

\* C16 witness: the second row of the first batch failed after the first row
\* had been handled; nothing of the batch is stored.
C16_Witness ==
    /\ worker.pc = "returned"
    /\ worker.err = "createRef"
    /\ handled.inputs = <<1, 2>>
    /\ inputs = << >>
    /\ inputRefs = {}

\* C17 (as claimed): WatchNewInputs leaves its loop only when the governing
\* context is cancelled; an error of a stage is retried.
C17_ReturnsOnlyAfterCancel ==
    [][(worker.pc \notin {"stopped", "returned"}
        /\ worker'.pc = "returned") => worker.cancelled]_vars

\* the concerns of the synchronizer and the position of each in the loop
Concerns == {"select", "status", "reports", "output", "outputUpdate"}

\* the concern is still polled
Polled(w, concern) == w.pc \notin {"stopped", "returned"}

\* C18 (as claimed): when the stage of one concern returns an error, every
\* other concern is still polled.
C18_ConcernsIndependent ==
    [][\A c \in Concerns :
          (/\ worker.pc = c
           /\ ~worker.cancelled
           /\ worker.err = "none"
           /\ worker'.err # "none") =>
              \A d \in Concerns \ {c} : Polled(worker', d)]_vars

\* the key of a voucher row
VoucherKey(r) == <<r.inputIndex, r.outputIndex>>

\* the keys of the vouchers whose Executed flag is set
ExecutedKeys(rows) == {VoucherKey(r) : r \in {x \in rows : x.executed}}

\* the keys the OutputExecuted events on the chain name
EventKeys == {<<Uint64(AndBitMask(chainLogs[k])), Uint64(Rsh128(chainLogs[k]))>> :
                 k \in DOMAIN chainLogs}

\* C19 (as claimed): once the context of the listener is cancelled,
\* Start / WatchExecutions eventually returns, in whichever phase it is.
C19_ReturnsAfterCancel ==
    listener.cancelled ~> (listener.pc = "returned")

C21_UpdateExecutedFrame ==
    [][ReceiveLog(TRUE) =>
          LET id == chainLogs[listener.next]
              key == <<id[4], id[2]>>
          IN  /\ \A r \in vouchers :
                    VoucherKey(r) # key => r \in vouchers'
              /\ \A r \in vouchers :
                    VoucherKey(r) = key =>
                        [r EXCEPT !.executed = TRUE] \in vouchers'
              /\ Cardinality(vouchers') = Cardinality(vouchers)]_vars

\* C21 witness: the subscription began with no event on the chain, one event
\* was then received, and of the two stored vouchers only the one the event
\* names is executed.
C21_Witness ==
    /\ listener.pc = "waiting"
    /\ listener.next = 2
    /\ Len(chainLogs) = 1
    /\ Cardinality(vouchers) = 2
    /\ ExecutedKeys(vouchers) = EventKeys
    /\ \E r \in vouchers : ~r.executed

\* C22 (as claimed): for every event id OnEvent calls UpdateExecuted with
\* the input index id mod 2^128 (the two low words) and the voucher index
\* id div 2^128 (the two high words).
C22_DecodesBothHalves ==
    [][CallOnEvent =>
          LET id == chainLogs[1]
          IN  /\ <<0, last'.inputIndex>> = <<id[3], id[4]>>
              /\ <<0, last'.outputIndex>> = <<id[1], id[2]>>]_vars

\* the payload begins with the four bytes of the voucher selector
HasVoucherSelector(p) == Len(p) >= 4 /\ SubSeq(p, 1, 4) = VOUCHER_SELECTOR

\* the payload without its first four bytes
Stripped(p) == [k \in 1..(IF Len(p) > 4 THEN Len(p) - 4 ELSE 0) |-> p[k + 4]]

\* the tables hold one voucher, with the destination and the stripped
\* payload, and no notice
OneVoucherOf(p, vs, ns) ==
    /\ Cardinality(vs) = 1
    /\ ns = {}
    /\ \A v \in vs : v.payload = Stripped(p) /\ Len(p) > 4 /\ v.destination = p[5]

\* the tables hold one notice, with the stripped payload, and no voucher
OneNoticeOf(p, vs, ns) ==
    /\ Cardinality(ns) = 1
    /\ vs = {}
    /\ \A n \in ns : n.payload = Stripped(p)

\* C23 (as claimed): for every payload HandleOutput writes one voucher row
\* and no notice row when the payload begins with the voucher selector, one
\* notice row and no voucher row otherwise, with the stripped payload.
C23_EveryPayloadRouted ==
    [][CallHandleOutput =>
          LET p == rawOutputs[1].payload
          IN  IF HasVoucherSelector(p)
              THEN OneVoucherOf(p, vouchers', notices')
              ELSE OneNoticeOf(p, vouchers', notices')]_vars

\* C23 (amended): for a payload of at least four bytes, HandleOutput writes
\* one voucher row and no notice row when the payload begins with the
\* voucher selector and the destination can be decoded from the rest, and
\* one notice row and no voucher row when it begins with four other bytes,
\* with the stripped payload; for a voucher whose destination cannot be
\* decoded and for a payload of fewer than four bytes no row is written and
\* HandleOutput does not return a raw id.
C23_SelectorRouting ==
    [][CallHandleOutput =>
          LET p == rawOutputs[1].payload
          IN  IF HasVoucherSelector(p) /\ Len(p) - 4 >= AbiVoucherLen
              THEN OneVoucherOf(p, vouchers', notices') /\ last'.err = "none"
              ELSE IF Len(p) >= 4 /\ ~HasVoucherSelector(p)
              THEN OneNoticeOf(p, vouchers', notices') /\ last'.err = "none"
              ELSE /\ vouchers' = {} /\ notices' = {} /\ outputRefs' = {}
                   /\ last'.err # "none"]_vars

\* C23 witness: a voucher payload with a body was handled and its row written.
C23_Witness ==
    /\ last.op = "HandleOutput"
    /\ last.err = "none"
    /\ rawOutputs[1].payload = VOUCHER_SELECTOR \o <<"d1", "11">>
    /\ \E v \in vouchers : v.destination = "d1" /\ v.payload = <<"d1", "11">>

\* the filtered rows by ascending natural key: the row at offset 0 is the
\* one with the least input index among the rows the predicate keeps
Kept(row, filter) ==
    \A k \in DOMAIN filter :
        LET f == filter[k]
        IN  IF f.field = "Status" THEN row.status # Accepted
            ELSE row.index > 0

FilteredIndexes(filter) ==
    {inputs[k].index : k \in {j \in DOMAIN inputs : Kept(inputs[j], filter)}}

\* the input index of the filtered row at an offset of 0..total-1
IndexAtOffset(filter, offset) ==
    CHOOSE i \in FilteredIndexes(filter) :
        Cardinality({j \in FilteredIndexes(filter) : j < i}) = offset

\* the returned rows are those at the offsets lo..hi that exist, in order
ReturnsOffsets(lo, hi) ==
    LET total == Cardinality(FilteredIndexes(last.filter))
        top == IF hi < total - 1 THEN hi ELSE total - 1
        from == IF lo > 0 THEN lo ELSE 0
    IN  /\ Len(last.rows) = (IF top >= from THEN top - from + 1 ELSE 0)
        /\ \A n \in 1..Len(last.rows) :
              last.rows[n].index = IndexAtOffset(last.filter, from + n - 1)

\* C24: FindAll over a filtered result set in ascending key order returns,
\* with first=n alone, the rows at offsets 0..n-1; with after=c and first=n,
\* those at c+1..c+n; with last=n alone, the last n rows from offset
\* max(0, total-n); with before=c and last=n, the n rows that end just before
\* offset c; the window is always inside 0..total-1 (offsets that do not
\* exist are left out) and the total is the filtered count.
C24_PageWindows ==
    (last.op = "FindAll" /\ last.err = "none") =>
        LET total == Cardinality(FilteredIndexes(last.filter))
            first == last.first
            lastp == last.lastp
            after == last.after
            before == last.before
            n == IF first # Nil THEN Deref(first) ELSE Deref(lastp)
        IN  /\ last.total = total
            /\ (first # Nil /\ after = Nil) => ReturnsOffsets(0, n - 1)
            /\ (first # Nil /\ after # Nil) =>
                  ReturnsOffsets(DecodeCursor(Deref(after)) + 1,
                                 DecodeCursor(Deref(after)) + n)
            /\ (lastp # Nil /\ before = Nil) =>
                  ReturnsOffsets(total - n, total - 1)
            /\ (lastp # Nil /\ before # Nil) =>
                  ReturnsOffsets(DecodeCursor(Deref(before)) - n,
                                 DecodeCursor(Deref(before)) - 1)
            /\ \E lo \in 0..total : ReturnsOffsets(lo, lo + Len(last.rows) - 1)
            /\ Len(last.rows) <= total

\* a second page of two rows was read after a cursor, and a last page before one
C24_Witness ==
    /\ last.op = "FindAll" /\ last.err = "none"
    /\ last.filter # << >> /\ Len(last.rows) = 2
    /\ \/ last.first # Nil /\ last.after = Ptr(EncodeCursor(0))
       \/ last.lastp # Nil /\ last.before # Nil
    /\ inputs[1].index > 0

\* the value a filter's field has in a row
FieldOf(row, field) ==
    IF field = INDEX_FIELD THEN row.index
    ELSE IF field = "Status" THEN row.status
    ELSE IF field = "MsgSender" THEN row.msgSender
    ELSE IF field = INPUT_INDEX THEN row.inputIndex
    ELSE row.outputIndex

\* the value of a predicate, as a value of its field
ValueOf(field, value) ==
    IF field \in {"Status", "MsgSender"} THEN value
    ELSE CHOOSE n \in 0..9 : ToString(n) = value

\* the predicate (field, operator, value) holds of the row
Holds(row, field, op, value) ==
    IF op = "Eq" THEN FieldOf(row, field) = ValueOf(field, value)
    ELSE IF op = "Ne" THEN FieldOf(row, field) # ValueOf(field, value)
    ELSE IF op = "Gt" THEN FieldOf(row, field) > ValueOf(field, value)
    ELSE FieldOf(row, field) < ValueOf(field, value)

\* every predicate of the filter list holds of the row
HoldsAll(row, filter) ==
    \A k \in DOMAIN filter : \A op \in DOMAIN filter[k].ops :
        Holds(row, filter[k].field, op, filter[k].ops[op])

\* every filter of the list is one (field, operator, value)
OnePredicateEach(filter) ==
    \A k \in DOMAIN filter : Cardinality(DOMAIN filter[k].ops) = 1

\* C25: a filter list is a conjunction: Count counts, and FindAll returns,
\* exactly the rows that satisfy every listed (field, operator, value)
\* predicate; an empty list matches every row.
C25_FilterConjunction ==
    (last.op \in {"Count", "FindAll"} /\ last.err = "none"
        /\ OnePredicateEach(last.filter)) =>
        LET ks == {k \in DOMAIN inputs : HoldsAll(inputs[k], last.filter)}
        IN  /\ last.total = Cardinality(ks)
            /\ last.filter = << >> => last.total = Len(inputs)
            /\ last.op = "FindAll" =>
                  {last.rows[n] : n \in DOMAIN last.rows} =
                  {inputs[k] : k \in ks}

\* two predicates were given, each keeps a row the other one drops
C25_Witness ==
    /\ last.op = "FindAll" /\ last.err = "none"
    /\ Len(last.filter) = 2 /\ OnePredicateEach(last.filter)
    /\ Len(last.rows) = 1
    /\ \A k \in 1..2 :
          \E j \in DOMAIN inputs :
             /\ HoldsAll(inputs[j], <<last.filter[k]>>)
             /\ ~HoldsAll(inputs[j], last.filter)

\* the operators each repository implements for each field it recognizes
Implemented(op) ==
    IF op \in {"Count", "FindAll"}
    THEN [f \in {INDEX_FIELD, "Status", "MsgSender"} |->
            IF f = INDEX_FIELD THEN {"Eq", "Gt", "Lt"}
            ELSE IF f = "Status" THEN {"Ne"} ELSE {"Eq"}]
    ELSE IF op = "NoticeCount" THEN [f \in {INPUT_INDEX} |-> {"Eq"}]
    ELSE [f \in {INPUT_INDEX, "OutputIndex"} |-> {"Eq"}]

\* some filter names an unrecognized field or sets an operator that is not
\* implemented for its field
Unsupported(op, filter) ==
    \E k \in DOMAIN filter :
        \/ filter[k].field \notin DOMAIN Implemented(op)
        \/ \E o \in DOMAIN filter[k].ops :
              o \notin Implemented(op)[filter[k].field]

\* the rows of the table a query reads
TableOf(op) ==
    IF op \in {"Count", "FindAll"} THEN {inputs[k] : k \in DOMAIN inputs}
    ELSE IF op = "NoticeCount" THEN notices ELSE reports

\* C26: a filter that names an unrecognized field, or sets an operator that
\* is not implemented for its field, makes Count and FindAll return an error,
\* and a query that returns without error has applied every predicate the
\* caller supplied.
C26_NothingDropped ==
    (last.op \in {"Count", "FindAll", "NoticeCount", "ReportCount"}) =>
        /\ Unsupported(last.op, last.filter) => last.err # "none"
        /\ last.err = "none" =>
              last.total =
                Cardinality({r \in TableOf(last.op) : HoldsAll(r, last.filter)})

\* C27: submitting an inspect input, and finishing it with FinishAndGetNext
\* or RegisterException while it is in flight, writes nothing to the store:
\* the input rows (so the status of every advance input), the vouchers, the
\* notices and the reports are the same before and after.
C27_InspectLeavesStore ==
    [][(\/ IsCall("AddInspectInput")
        \/ /\ state.kind = "Inspect"
           /\ IsCall("FinishAndGetNext") \/ IsCall("RegisterException")) =>
          /\ inputs' = inputs
          /\ vouchers' = vouchers
          /\ notices' = notices
          /\ reports' = reports]_vars

\* C27 witness: the inspect input was finished while advance input 0 waited;
\* input 0 is dispatched next and is still Unprocessed.
C27_Witness ==
    /\ last.op = "FinishAndGetNext"
    /\ last.kind = "advance"
    /\ last.index = 0
    /\ finished = {}
    /\ Len(inspects) = 1
    /\ inspects[1].status = Rejected
    /\ StoredStatus(inputs, 0) = Unprocessed

\* C28: a voucher, a notice or a report is accepted only for an input that is
\* still Unprocessed: the stored status of the advance input in flight, or
\* the status of the inspect input in flight, is Unprocessed whenever
\* AddVoucher, AddNotice or AddReport returns no error.
C28_OutputsOnlyForUnprocessed ==
    [][((IsCall("AddVoucher") \/ IsCall("AddNotice") \/ IsCall("AddReport"))
          /\ last'.err = "none") =>
          /\ state.kind = "Advance" =>
                StoredStatus(inputs, state.index) = Unprocessed
          /\ state.kind = "Inspect" =>
                inspects[state.index].status = Unprocessed]_vars

\* the raw ids of a batch
BatchIds(rows, batch) == {rows[batch[k]].id : k \in DOMAIN batch}

\* what a step appended to a sequence
Appended(before, after) == SubSeq(after, Len(before) + 1, Len(after))

Elements(seq) == {seq[k] : k \in DOMAIN seq}

\* the batch the next SyncOutputCreation reads
NextOutputBatch ==
    FindAllOutputsByFilter(rawOutputs, worker.latestOutputRawId, LIMIT)

\* the rule of one concern: batch holds the raw ids read, got those its
\* handler was called with (the failed one last), mark the mark returned and
\* again the raw ids a call with that mark reads
MarkRule(batch, got, failed, mark, again) ==
    /\ \A id \in batch :
          id < mark => /\ id \in Elements(got)
                       /\ failed => id # got[Len(got)]
    /\ failed =>
          /\ mark <= got[Len(got)]
          /\ \A id \in batch : id > got[Len(got)] => id \notin Elements(got)
          /\ got[Len(got)] \in again

\* C29: the mark of a concern moves past raw row r only after the handler of
\* r returned without error; when the handler of r fails, the batch ends
\* there: no later row of the batch is handled or projected, the mark
\* returned is not past r, and a call with that mark reads r again.  For
\* outputs, which are written without a transaction, every row the mark has
\* passed has its raw output reference.
C29_MarkAfterSuccess ==
    [][/\ (worker.pc = "select" /\ ~worker.cancelled
            /\ worker'.pc # "select") =>
              MarkRule(BatchIds(rawInputs, NextInputBatch),
                       Appended(handled.inputs, handled'.inputs),
                       worker'.pc = "returned" /\ worker'.err \in HandleFailures,
                       worker'.latestRawID,
                       BatchIds(rawInputs',
                                FindAllInputsByFilter(rawInputs',
                                    worker'.latestRawID, LIMIT)))
       /\ (worker.pc = "select" /\ ~worker.cancelled
            /\ worker'.pc = "status") =>
              \A id \in BatchIds(rawInputs, NextInputBatch) :
                  id < worker'.latestRawID => id \in {r.rawId : r \in inputRefs'}
       /\ (worker.pc = "output" /\ worker'.pc # "output") =>
              /\ MarkRule(BatchIds(rawOutputs, NextOutputBatch),
                          Appended(handled.outputs, handled'.outputs),
                          worker'.pc = "returned",
                          worker'.latestOutputRawId,
                          BatchIds(rawOutputs',
                                   FindAllOutputsByFilter(rawOutputs',
                                       worker'.latestOutputRawId, LIMIT)))
              /\ \A id \in BatchIds(rawOutputs, NextOutputBatch) :
                    id < worker'.latestOutputRawId =>
                        id \in {r.rawId : r \in outputRefs'}
              /\ \A r \in outputRefs' \ outputRefs :
                    r.rawId < worker'.latestOutputRawId
              /\ \A row \in (vouchers' \ vouchers) \cup (notices' \ notices) :
                    \E id \in Elements(Appended(handled.outputs,
                                                handled'.outputs)) :
                        strconvAtoi(rawOutputs[id].index).value =
                            row.outputIndex]_vars

\* C29 witness: of a batch of two raw outputs the first was projected and the
\* second failed; the mark stands at the second.
C29_Witness ==
    /\ worker.pc = "returned"
    /\ worker.err = "createRef"
    /\ handled.outputs = <<1, 2>>
    /\ worker.latestOutputRawId = 2
    /\ {r.rawId : r \in outputRefs} = {1}

\* C30 (as claimed): when SyncInputCreation returns an error, the mark it
\* returns is the mark it was given.
C30_FailedBatchKeepsMark ==
    [][(/\ worker.pc = "select"
        /\ ~worker.cancelled
        /\ worker'.pc = "returned") =>
            worker'.latestRawID = worker.latestRawID]_vars

\* the rows of the natural key the two workers upsert
RowsOfKey ==
    IF last.op = "CreateInput"
    THEN Cardinality(RowsOfApp(inputs, 0, "0xf3"))
    ELSE IF last.op = "CreateVoucher"
    THEN Cardinality(KeyRows(vouchers, 0, 0))
    ELSE Cardinality(KeyRows(notices, 0, 0))

\* C31 (as claimed): when two workers upsert the same natural key at the same
\* time through CreateInput, CreateVoucher or CreateNotice, then however their
\* statements interleave, once both calls have returned the table holds
\* exactly one row of the key and neither call has returned a
\* unique-constraint error.
C31_ConcurrentUpsertsOneRow ==
    (\A w \in Callers : last.calls[w].pc = "done") =>
        /\ RowsOfKey = 1
        /\ \A w \in Callers : last.calls[w].err # "unique"

\* C32 (as claimed): once the listener has observed an OutputExecuted event of
\* (input index, voucher index), the voucher row of that key eventually has
\* Executed = true, whether the listener handled the event before or after the
\* synchronizer created the row.
C32_ObservedEventuallyExecuted ==
    \A key \in Keys \X Keys :
        (key \in listener.seen /\ KeyRows(vouchers, key[1], key[2]) # {})
            ~> (key \in ExecutedKeys(vouchers))

\* the indexes of the stored inputs with the status
IndexesWithStatus(rows, status) ==
    {rows[k].index : k \in {j \in DOMAIN rows : rows[j].status = status}}

\* what a FinishAndGetNext that returned no error dispatched: the first
\* unprocessed inspect input, else the unprocessed advance input of the lowest
\* index, else nothing (Idle)
DispatchedNextPending ==
    LET waiting == {k \in DOMAIN inspects' : inspects'[k].status = Unprocessed}
        pending == IndexesWithStatus(inputs', Unprocessed)
    IN  IF waiting # {}
        THEN state'.kind = "Inspect" /\ state'.index = Min(waiting)
        ELSE IF pending # {}
        THEN state'.kind = "Advance" /\ state'.index = Min(pending)
        ELSE state'.kind = "Idle"

\* C33: after RegisterException has ended advance input i with status
\* Exception the state is Idle, and the next FinishAndGetNext, accepted or not,
\* leaves the status of i Exception (it finishes nothing: no input row, inspect
\* input or output changes) and only dispatches the next pending input, or
\* stays Idle when none is pending or the lookup fails.
C33_FinishAfterException ==
    [][IsCall("FinishAndGetNext") =>
          /\ \A i \in Indexes :
                StoredStatus(inputs, i) = Exception =>
                    /\ StoredStatus(inputs', i) = Exception
                    /\ ~(state'.kind = "Advance" /\ state'.index = i)
          /\ (last.op = "RegisterException" /\ last.err = "none") =>
                state.kind = "Idle"
          /\ state.kind = "Idle" =>
                /\ inputs' = inputs
                /\ inspects' = inspects
                /\ <<vouchers', notices', reports'>> = <<vouchers, notices, reports>>
                /\ IF last'.err = "none" THEN DispatchedNextPending
                   ELSE state' = state]_vars

\* C33 witness: an exception ended advance input 0, and the FinishAndGetNext
\* after it dispatched input 1 and left input 0 with Exception.
C33_Witness ==
    /\ last.op = "FinishAndGetNext"
    /\ last.err = "none"
    /\ last.kind = "advance"
    /\ last.index = 1
    /\ state.kind = "Advance"
    /\ state.index = 1
    /\ StoredStatus(inputs, 0) = Exception
    /\ finished = {}

\* C34 (as claimed): a CreateInput for the key (Index, AppContract) changes
\* only the row of that key: a stored row with the same Index and another
\* AppContract keeps its Status and its Exception.
C34_UpdateOnlyKeyedRow ==
    [][IsCall("CreateInput") =>
          \A k \in DOMAIN inputs :
              (inputs[k].index = last'.index /\ inputs[k].app # last'.arg) =>
                  /\ inputs'[k].status = inputs[k].status
                  /\ inputs'[k].exception = inputs[k].exception]_vars

\* the index text of the raw output is a decimal number
ValidIndexText(text) == \E o \in 0..9 : ToString(o) = text

\* C35 (as claimed): a raw output whose index is not a valid integer, or whose
\* input row cannot be found, is a hard error for the record: HandleOutput
\* returns an error and writes no voucher and no notice.
C35_UndecodableOutputIsError ==
    (/\ last.op = "HandleOutput"
     /\ \/ ~ValidIndexText(rawOutputs[1].index)
        \/ \A k \in DOMAIN rawInputs :
                rawInputs[k].id # rawOutputs[1].inputId) =>
        /\ last.err \notin {"none", "panic"}
        /\ vouchers = {}
        /\ notices = {}

\* the stored outputs of a table that belong to the input
OutputsOf(rows, inputIndex) == {r \in rows : r.inputIndex = inputIndex}

\* the step is a call of op that added an output to the advance input
Added(op) == IsCall(op) /\ last'.err = "none" /\ state.kind = "Advance"

\* the step added to the table one row, of the input in flight, with the
\* index the call returned
AddedRow(before, after) ==
    /\ before \subseteq after
    /\ Cardinality(after \ before) = 1
    /\ \A r \in after \ before :
            r.inputIndex = state.index /\ r.outputIndex = last'.index

Materialized(id) ==
    /\ id \in DOMAIN rawInputs
    /\ \E k \in DOMAIN inputs :
           /\ inputs[k].index = rawInputs[id].index
           /\ inputs[k].app = rawInputs[id].app

\* C37: while the synchronizer keeps running and no stage fails, every row
\* present in the raw input table is eventually materialized as a projection
\* row, also when more rows are pending than one batch (LIMIT) holds.
C37_EveryRawInputMaterialized ==
    \A id \in 1..MaxRaw :
        (id \in DOMAIN rawInputs) ~> Materialized(id)

\* the statuses an input does not leave
TerminalStatuses == CompletionStatus \ {Unprocessed}

\* C38: when the driver keeps calling FinishAndGetNext, the persistence never
\* fails and finitely many inspect inputs are submitted, every Unprocessed
\* advance input is eventually dispatched (the machine is in Advance on it)
\* and eventually has a terminal status.
C38_UnprocessedEventuallyTerminal ==
    \A i \in Indexes :
        /\ (StoredStatus(inputs, i) = Unprocessed)
               ~> (state.kind = "Advance" /\ state.index = i)
        /\ (StoredStatus(inputs, i) = Unprocessed)
               ~> (StoredStatus(inputs, i) \in TerminalStatuses)

\* C38 witness: an inspect input was submitted, and every advance input has
\* been dispatched and finished by FinishAndGetNext.
C38_Witness ==
    /\ last.op = "FinishAndGetNext"
    /\ inspects # << >>
    /\ finished = Indexes
    /\ \A i \in Indexes : StoredStatus(inputs, i) \in {Accepted, Rejected}

\* C39: in each connection round the listener completes the replay of the
\* past events before it subscribes (the subscription is made only after a
\* historical read that gave every log then on the chain to HandleLog), and
\* an event that lands after the historical read and before the subscription
\* is given to HandleLog neither by the replay nor by the subscription of
\* that round.
C39_GapEventMissedInRound ==
    [][/\ (listener'.pc = "subscribe" /\ listener.pc # "subscribe") =>
              /\ listener.pc = "replay"
              /\ listener'.round = DOMAIN chainLogs
       /\ (listener'.pc = "waiting" /\ listener.pc # "waiting") =>
              /\ listener.pc = "subscribe"
              /\ listener'.round = listener.round
       /\ listener'.pc \in {"subscribe", "waiting"} =>
              listener'.missed \cap listener'.round = {}]_vars

\* C39 witness: an event landed between the historical read and the
\* subscription, a later one was received from the subscription, and the
\* round is still listening.
C39_Witness ==
    /\ listener.pc = "waiting"
    /\ listener.missed # {}
    /\ \E k \in listener.round : \A m \in listener.missed : k > m

====
